---- MODULE Spec2Model ----
(***************************************************************************)
(* A model of the decoding pipeline of the RPG Maker viewer:               *)
(*   viewer/rgss_archive.py          RgssArchive (container archives)      *)
(*   viewer/mv_mz_resource_unpack.py decrypt_resource_file, prepare_...    *)
(*   viewer/data_loader.py           DataLoader                            *)
(* Bytes are 0..255; a 32-bit word is the tuple of its four little-endian  *)
(* bytes, so that (key*7+3) mod 2^32 is computed with its true width.      *)
(***************************************************************************)
EXTENDS Integers, Sequences, FiniteSets, TLC

VARIABLES
    built,      \* archive: the entries the archive file was built from
    file,       \* archive: the bytes of the archive file on disk
    cut,        \* archive: how many bytes of the built file were cut off its end
    arc,        \* archive: the RgssArchive object (state, version, _entries)
    lastRead    \* archive: the outcome of the last read_entry call

VARIABLES
    dec         \* decryptor: the last decrypt_resource_file call and its outcome

VARIABLES
    proj,       \* batch: the project tree (obscured files, System.json, Java runner)
    outdir,     \* batch: the decrypted output tree, target path -> bytes
    last,       \* batch: the PrepareResult of the last prepare_resources call
    prev        \* batch: the PrepareResult of the call before it

VARIABLES
    disk,       \* loader: the data directory, file name -> bytes
    dl,         \* loader: the DataLoader object (engine, _cache, whether it has an archive)
    firsts,     \* loader: for each name loaded first among its case variants, the result
    lastLoad    \* loader: the last exists/load_json call and its outcome

VARIABLES
    ad          \* adapter: the last VXDataAdapter.adapt call, its input and its output

VARIABLES
    itp         \* the interpreter: its map context, the arguments that set it, the
                \* event of the call at hand and what the call returns

VARIABLES
    reg,        \* the registry: its games, the active game id and the next fresh id
    mapinfos,   \* the game folders whose data directory holds MapInfos.json
    app,        \* the application state: the active context and the last prepare result
    lastCall    \* the last call on the application state and what it raised or returned

VARIABLES
    srv,        \* the server: the last request it handled and the response it sent
    thr         \* the map requests under way when requests run side by side

VARIABLES
    query           \* the last query of the database or of the interpreter: its input and what it gave

arcVars == <<built, file, cut, arc, lastRead>>
decVars == <<dec>>
resVars == <<proj, outdir, last, prev>>
dlVars == <<disk, dl, firsts, lastLoad>>
adVars == <<ad>>
itpVars == <<itp>>
appVars == <<reg, mapinfos, app, lastCall>>
srvVars == <<srv, thr>>
qryVars == <<query>>
vars == <<arcVars, decVars, resVars, dlVars, adVars, itpVars, appVars, srvVars, qryVars>>

(***************************************************************************)
(* Bytes and 32-bit words                                                  *)
(***************************************************************************)
RECURSIVE XorBits(_, _, _)
XorBits(a, b, n) ==
    IF n = 0 THEN 0
    ELSE (((a % 2) + (b % 2)) % 2) + 2 * XorBits(a \div 2, b \div 2, n - 1)

\* Python's ^ on two bytes.
BXor(a, b) == XorBits(a, b, 8)

\* struct.pack("<I", v) for an integer the model can hold (v < 2^16).
PackU32(v) == <<v % 256, (v \div 256) % 256, 0, 0>>

\* A word whose value is below 2^16; every file of the model is shorter than that.
IsSmall(w) == w[3] = 0 /\ w[4] = 0
SmallVal(w) == w[1] + 256 * w[2]

WXor(a, b) == <<BXor(a[1], b[1]), BXor(a[2], b[2]), BXor(a[3], b[3]), BXor(a[4], b[4])>>

\* _u32(w * m + c): the product is carried byte by byte and the carry out of
\* the fourth byte is dropped (& 0xFFFFFFFF).
MulAdd(w, m, c) ==
    LET t1 == w[1] * m + c
        t2 == w[2] * m + (t1 \div 256)
        t3 == w[3] * m + (t2 \div 256)
        t4 == w[4] * m + (t3 \div 256)
    IN  <<t1 % 256, t2 % 256, t3 % 256, t4 % 256>>

\* magic_key = _u32(magic_key * 7 + 3)
KeyAdvance(key) == MulAdd(key, 7, 3)

\* f.read(n) at 0-based position pos: at most n bytes, fewer at end of file.
FRead(f, pos, n) ==
    IF pos >= Len(f) \/ n <= 0 THEN <<>>
    ELSE SubSeq(f, pos + 1, IF pos + n <= Len(f) THEN pos + n ELSE Len(f))

\* f.read(n) where n is a 32-bit word: a count of 2^16 or more reads to the end.
FReadW(f, pos, w) == FRead(f, pos, IF IsSmall(w) THEN SmallVal(w) ELSE Len(f) + 1)

\* len(data) == n for a 32-bit n.
LenIs(data, w) == IsSmall(w) /\ Len(data) = SmallVal(w)

(***************************************************************************)
(* Entry names                                                             *)
(***************************************************************************)
Slash == 47
Backslash == 92
ReplacementChar == 65533

\* bytes.decode("utf-8", errors="replace"): exact on ASCII; a byte that starts
\* no valid sequence becomes U+FFFD.
Utf8Decode(bs) == [i \in 1..Len(bs) |-> IF bs[i] < 128 THEN bs[i] ELSE ReplacementChar]

\* str.isspace() on the code points that can occur.
IsSpace(c) == c \in {9, 10, 11, 12, 13, 28, 29, 30, 31, 32, 133, 160}

RECURSIVE LStrip(_)
LStrip(s) == IF s # <<>> /\ IsSpace(Head(s)) THEN LStrip(Tail(s)) ELSE s

RECURSIVE RStrip(_)
RStrip(s) ==
    IF s # <<>> /\ IsSpace(s[Len(s)]) THEN RStrip(SubSeq(s, 1, Len(s) - 1)) ELSE s

\* str.lower() on one code point.
LowerChar(c) == IF c >= 65 /\ c <= 90 THEN c + 32 ELSE c

\* path.replace("/", "\\").strip().lower()
canonical_NoLower(path) ==
    RStrip(LStrip([i \in 1..Len(path) |-> IF path[i] = Slash THEN Backslash ELSE path[i]]))

canonical(path) ==
    LET replaced == [i \in 1..Len(path) |-> IF path[i] = Slash THEN Backslash ELSE path[i]]
        stripped == RStrip(LStrip(replaced))
    IN  [i \in 1..Len(stripped) |-> LowerChar(stripped[i])]

(***************************************************************************)
(* RgssArchive: index parsing                                              *)
(***************************************************************************)
RGSS_MAGIC == <<82, 71, 83, 83, 65, 68>>

\* RgssArchiveEntry(name, offset, size, data_key); offset and size are words.
RgssArchiveEntry(name, offset, size, data_key) ==
    [name |-> name, offset |-> offset, size |-> size, data_key |-> data_key]

\* self._entries[key] = entry
Put(ents, key, entry) ==
    [k \in DOMAIN ents \cup {key} |-> IF k = key THEN entry ELSE ents[k]]

NoEntries == [k \in {} |-> 0]

Raised(kind) == [raised |-> kind, entries |-> NoEntries]
Parsed(ents) == [raised |-> "none", entries |-> ents]

\* name_enc[i] ^ key_bytes[i % 4] (i counted from 0)
V3NameByte(b, i, key_bytes) == BXor(b, key_bytes[(i % 4) + 1])

\* What _parse_v3_index does with fewer than 16 bytes of a record.
V3ShortRecord_Raise(raw, ents) ==
    IF Len(raw) = 0 THEN Parsed(ents) ELSE Raised("GameDataInvalidError")

V3ShortRecord(raw, ents) == Parsed(ents)

RECURSIVE ParseV3Loop(_, _, _, _)
ParseV3Loop(f, pos, magic_key, ents) ==
    LET raw == FRead(f, pos, 16) IN
    IF Len(raw) < 16 THEN V3ShortRecord(raw, ents)
    ELSE
        LET offset == WXor(SubSeq(raw, 1, 4), magic_key) IN
        IF offset = <<0, 0, 0, 0>> THEN Parsed(ents)
        ELSE
            LET size == WXor(SubSeq(raw, 5, 8), magic_key)
                data_key == WXor(SubSeq(raw, 9, 12), magic_key)
                name_len == WXor(SubSeq(raw, 13, 16), magic_key)
                name_enc == FReadW(f, pos + 16, name_len)
            IN
            IF ~LenIs(name_enc, name_len) THEN Raised("GameDataInvalidError")
            ELSE
                LET name == Utf8Decode([i \in 1..Len(name_enc) |->
                                V3NameByte(name_enc[i], i - 1, magic_key)])
                    entry == RgssArchiveEntry(name, offset, size, data_key)
                IN  ParseV3Loop(f, pos + 16 + Len(name_enc), magic_key,
                                Put(ents, canonical(name), entry))

\* _parse_v3_index, entered with the file position after the 8-byte header.
parse_v3_index(f) ==
    LET key_raw == FRead(f, 8, 4) IN
    IF Len(key_raw) # 4 THEN Raised("GameDataInvalidError")
    ELSE ParseV3Loop(f, 12, MulAdd(key_raw, 9, 3), NoEntries)

\* The version-1/2 name loop: byte i is XORed with the low byte of the key and
\* the key advances after every byte.  Returns the plain bytes and the key.
RECURSIVE V1NameLoop(_, _, _, _)
V1NameLoop(name_bytes, i, magic_key, out) ==
    IF i > Len(name_bytes) THEN [name |-> out, key |-> magic_key]
    ELSE V1NameLoop(name_bytes, i + 1, KeyAdvance(magic_key),
                    Append(out, BXor(name_bytes[i], magic_key[1])))

\* The key after the size field has been decoded (line 124).
KeyAfterSize_NoAdvance(magic_key) == magic_key

KeyAfterSize(magic_key) == KeyAdvance(magic_key)

\* The key a record starts with, given the key the previous record ended with.
KeyForNextRecord_Reset(magic_key) == <<254, 202, 173, 222>>

KeyForNextRecord(magic_key) == magic_key

RECURSIVE ParseV1Loop(_, _, _, _)
ParseV1Loop(f, pos, magic_key, ents) ==
    IF ~(pos < Len(f)) THEN Parsed(ents)
    ELSE
        LET name_len_raw == FRead(f, pos, 4) IN
        IF Len(name_len_raw) = 0 THEN Parsed(ents)
        ELSE IF Len(name_len_raw) < 4 THEN Raised("GameDataInvalidError")
        ELSE
            LET name_len == WXor(name_len_raw, magic_key)
                key1 == KeyAdvance(magic_key)
            IN
            IF name_len = <<0, 0, 0, 0>> THEN Parsed(ents)
            ELSE
                LET name_bytes == FReadW(f, pos + 4, name_len) IN
                IF ~LenIs(name_bytes, name_len) THEN Raised("GameDataInvalidError")
                ELSE
                    LET nm == V1NameLoop(name_bytes, 1, key1, <<>>)
                        name == Utf8Decode(nm.name)
                        size_pos == pos + 4 + Len(name_bytes)
                        size_raw == FRead(f, size_pos, 4)
                    IN
                    IF Len(size_raw) < 4 THEN Raised("GameDataInvalidError")
                    ELSE
                        LET size == WXor(size_raw, nm.key)
                            key2 == KeyAfterSize(nm.key)
                            offset == size_pos + 4
                            entry == RgssArchiveEntry(name, PackU32(offset), size, key2)
                            next == IF IsSmall(size) THEN offset + SmallVal(size)
                                    ELSE Len(f)
                        IN  ParseV1Loop(f, next, KeyForNextRecord(key2),
                                        Put(ents, canonical(name), entry))

\* _parse_v1_v2_index: the running key starts at 0xDEADCAFE.
DEADCAFE == <<254, 202, 173, 222>>

parse_v1_v2_index(f) == ParseV1Loop(f, 8, DEADCAFE, NoEntries)

\* _parse_index: magic, reserved byte, version byte, then the version's index.
parse_index(f) ==
    IF FRead(f, 0, 6) # RGSS_MAGIC THEN [version |-> 0] @@ Raised("GameDataInvalidError")
    ELSE
        LET ver_raw == FRead(f, 7, 1) IN
        IF ver_raw = <<>> THEN [version |-> 0] @@ Raised("GameDataInvalidError")
        ELSE IF ver_raw[1] = 3 THEN [version |-> 3] @@ parse_v3_index(f)
        ELSE IF ver_raw[1] \in {1, 2} THEN [version |-> ver_raw[1]] @@ parse_v1_v2_index(f)
        ELSE [version |-> ver_raw[1]] @@ Raised("GameDataInvalidError")

(***************************************************************************)
(* RgssArchive: entry lookup and payload decryption                        *)
(***************************************************************************)
\* The key the trailing bytes are XORed with: data_key as the group loop left it.
TrailKey_Initial(current, initial) == initial

TrailKey(current, initial) == current

RECURSIVE DecryptGroups(_, _, _, _)
DecryptGroups(data, i, groups, data_key) ==
    IF i >= groups THEN [data |-> data, key |-> data_key]
    ELSE
        LET base == i * 4
            d == [k \in 1..Len(data) |->
                    IF k > base /\ k <= base + 4
                    THEN BXor(data[k], data_key[k - base]) ELSE data[k]]
        IN  DecryptGroups(d, i + 1, groups, KeyAdvance(data_key))

\* _read_and_decrypt: seek, read size bytes, fail when short, then decrypt.
read_and_decrypt(f, entry) ==
    LET start == IF IsSmall(entry.offset) THEN SmallVal(entry.offset) ELSE Len(f)
        data == FReadW(f, start, entry.size)
    IN
    IF ~LenIs(data, entry.size) THEN [kind |-> "GameDataInvalidError", data |-> <<>>]
    ELSE
        LET groups == Len(data) \div 4
            g == DecryptGroups(data, 0, groups, entry.data_key)
        IN  [kind |-> "ok",
             data |-> [k \in 1..Len(data) |->
                        IF k > groups * 4
                        THEN BXor(g.data[k],
                                  TrailKey(g.key, entry.data_key)[((k - 1) % 4) + 1])
                        ELSE g.data[k]]]

\* The key read_entry looks up.
EntryKey_Raw(name) == name

EntryKey(name) == canonical(name)

has_entry(ents, name) == canonical(name) \in DOMAIN ents

\* self._entries.get(key) as read_entry leaves the table: get() inserts nothing.
EntriesAfterGet_Insert(ents, key) ==
    Put(ents, key, RgssArchiveEntry(<<>>, <<0, 0, 0, 0>>, <<0, 0, 0, 0>>, <<0, 0, 0, 0>>))

EntriesAfterGet(ents, key) == ents

read_entry(f, ents, name) ==
    LET key == EntryKey(name) IN
    IF key \notin DOMAIN ents THEN [kind |-> "KeyError", data |-> <<>>]
    ELSE read_and_decrypt(f, ents[key])

(***************************************************************************)
(* Archive files: how the test suite builds a version-3 archive, and the   *)
(* version-1/2 layout of the format                                        *)
(***************************************************************************)
MaxEntries == 2
MaxPayloadLen == 5

RECURSIVE AdvanceN(_, _)
AdvanceN(key, n) == IF n = 0 THEN key ELSE AdvanceN(KeyAdvance(key), n - 1)

\* _crypt_payload of the test suite: byte p (from 0) is XORed with byte p % 4
\* of the key advanced p // 4 times.
crypt_payload(raw, data_key) ==
    [p \in 1..Len(raw) |->
        BXor(raw[p], AdvanceN(data_key, (p - 1) \div 4)[((p - 1) % 4) + 1])]

RECURSIVE Concat(_)
Concat(seqs) == IF seqs = <<>> THEN <<>> ELSE Head(seqs) \o Concat(Tail(seqs))

RECURSIVE SumLen(_)
SumLen(seqs) == IF seqs = <<>> THEN 0 ELSE Len(Head(seqs)) + SumLen(Tail(seqs))

\* _build_rgss3a_single_entry, for a list of entries: header, one index record
\* per entry, the terminator record, then the encrypted payloads in order.
build_rgss3a(key0, ents) ==
    LET magic == MulAdd(key0, 9, 3)
        header == RGSS_MAGIC \o <<0, 3>> \o key0
        index_size == SumLen([i \in 1..Len(ents) |-> ents[i].name]) + 16 * Len(ents)
        enc == [i \in 1..Len(ents) |-> crypt_payload(ents[i].payload, ents[i].data_key)]
        offset(i) == Len(header) + index_size + 16 + SumLen(SubSeq(enc, 1, i - 1))
        record(i) ==
            WXor(PackU32(offset(i)), magic)
            \o WXor(PackU32(Len(enc[i])), magic)
            \o WXor(ents[i].data_key, magic)
            \o WXor(PackU32(Len(ents[i].name)), magic)
            \o [k \in 1..Len(ents[i].name) |-> BXor(ents[i].name[k], magic[((k - 1) % 4) + 1])]
        terminator == magic \o <<0, 0, 0, 0, 0, 0, 0, 0, 0, 0, 0, 0>>
    IN  header \o Concat([i \in 1..Len(ents) |-> record(i)]) \o terminator \o Concat(enc)

\* A version-1/2 archive: per entry the name length, the name and the size under
\* the running key, then the payload under the key the size field left.
RECURSIVE V1Records(_, _)
V1Records(ents, key) ==
    IF ents = <<>> THEN <<>>
    ELSE
        LET e == Head(ents)
            n == Len(e.name)
            size_key == AdvanceN(key, n + 1)
            pay_key == KeyAdvance(size_key)
        IN  WXor(PackU32(n), key)
            \o [k \in 1..n |-> BXor(e.name[k], AdvanceN(key, k)[1])]
            \o WXor(PackU32(Len(e.payload)), size_key)
            \o crypt_payload(e.payload, pay_key)
            \o V1Records(Tail(ents), pay_key)

build_rgssad(version, ents) == RGSS_MAGIC \o <<0, version>> \o V1Records(ents, DEADCAFE)

\* The inputs: seeds, data keys, names and payloads the archives are built from.
Seeds == {<<252, 13, 0, 0>>, <<255, 255, 255, 255>>}
DataKeys == {<<120, 86, 52, 18>>, <<255, 255, 255, 255>>}
EntryNames == {<<68, 92, 65>>, <<100, 47, 97>>, <<66>>, <<99>>}
LookupNames == EntryNames \cup {<<68, 47, 97>>, <<32, 98, 32>>, <<69>>}

PayloadOf(len, salt) == [i \in 1..len |-> (salt * 89 + i * 37) % 256]

\* Entry lists whose names stay distinct when case and separators are ignored,
\* as the names of the files of one directory tree are.
NameLists ==
    {ns \in UNION {[1..n -> EntryNames] : n \in 1..MaxEntries} :
        \A i, j \in 1..Len(ns) : i # j => canonical(ns[i]) # canonical(ns[j])}

EntriesOf(ns, sel, data_key) ==
    [i \in 1..Len(ns) |->
        [name |-> ns[i],
         payload |-> PayloadOf((sel + 3 * (i - 1)) % (MaxPayloadLen + 1), i),
         data_key |-> data_key]]

(***************************************************************************)
(* The archive state machine                                               *)
(***************************************************************************)
NoRead == [op |-> "none", name |-> <<>>, kind |-> "none", data |-> <<>>, has |-> FALSE]

ArcInit ==
    /\ built = <<>>
    /\ file = <<>>
    /\ cut = 0
    /\ arc = [state |-> "nofile", version |-> 0, entries |-> NoEntries]
    /\ lastRead = NoRead

\* A version-3 archive file is written to disk.
BuildV3 ==
    /\ arc.state = "nofile"
    /\ \E key0 \in Seeds, ns \in NameLists, sel \in 0..MaxPayloadLen, dk \in DataKeys :
        /\ built' = EntriesOf(ns, sel, dk)
        /\ file' = build_rgss3a(key0, built')
    /\ arc' = [arc EXCEPT !.state = "closed"]
    /\ UNCHANGED <<cut, lastRead>>

\* A version-1 or version-2 archive file is written to disk.
BuildV1V2 ==
    /\ arc.state = "nofile"
    /\ \E version \in {1, 2}, ns \in NameLists, sel \in 0..MaxPayloadLen :
        /\ built' = EntriesOf(ns, sel, DEADCAFE)
        /\ file' = build_rgssad(version, built')
    /\ arc' = [arc EXCEPT !.state = "closed"]
    /\ UNCHANGED <<cut, lastRead>>

\* The file loses its last bytes before it is opened.
Truncate ==
    /\ arc.state = "closed"
    /\ cut = 0
    /\ \E n \in 1..(Len(file) - 8) :
        /\ cut' = n
        /\ file' = SubSeq(file, 1, Len(file) - n)
    /\ UNCHANGED <<built, arc, lastRead>>

\* RgssArchive(path): __init__ parses the index; a raise leaves no archive object.
Open ==
    /\ arc.state = "closed"
    /\ LET r == parse_index(file) IN
        arc' = [state |-> IF r.raised = "none" THEN "open" ELSE "invalid",
                version |-> r.version,
                entries |-> r.entries]
    /\ UNCHANGED <<built, file, cut, lastRead>>

\* read_entry(name); has is what has_entry(name) answers on the same archive.
ReadEntry ==
    /\ arc.state = "open"
    /\ \E name \in LookupNames :
        LET r == read_entry(file, arc.entries, name) IN
        /\ lastRead' = [op |-> "read_entry", name |-> name, kind |-> r.kind,
                        data |-> r.data, has |-> has_entry(arc.entries, name)]
        /\ arc' = [arc EXCEPT !.entries = EntriesAfterGet(arc.entries, EntryKey(name))]
    /\ UNCHANGED <<built, file, cut>>

ArcNext == BuildV3 \/ BuildV1V2 \/ Open \/ ReadEntry


(***************************************************************************)
(* Claims about the archive reader                                         *)
(***************************************************************************)
\* One character with its case and its separator style folded away.
FoldChar(c) ==
    IF c = 47 THEN 92 ELSE IF c >= 65 /\ c <= 90 THEN c + 32 ELSE c

\* b is a, up to the case of its letters and "/" versus "\".
SameModuloCaseSep(a, b) ==
    /\ Len(a) = Len(b)
    /\ \A i \in 1..Len(a) : FoldChar(a[i]) = FoldChar(b[i])

\* C1: on a version-3 archive as built, read_entry with the name of an entry, or
\* with a case or separator variant of it, returns exactly that entry's payload,
\* whatever the seed and the payload's length.
C1_V3RoundTrip ==
    (arc.state = "open" /\ arc.version = 3 /\ cut = 0 /\ lastRead.op = "read_entry") =>
        \A i \in 1..Len(built) :
            SameModuloCaseSep(lastRead.name, built[i].name) =>
                lastRead.kind = "ok" /\ lastRead.data = built[i].payload

\* C1 witness: a payload of 5 bytes (one group and a trailing byte) was read
\* back through a name that differs from the stored one in case and separator.
C1_Witness ==
    /\ arc.state = "open" /\ arc.version = 3 /\ lastRead.op = "read_entry"
    /\ lastRead.kind = "ok" /\ Len(lastRead.data) = 5
    /\ \E i \in 1..Len(built) :
        /\ lastRead.name # built[i].name
        /\ SameModuloCaseSep(lastRead.name, built[i].name)
        /\ lastRead.data = built[i].payload

\* The number of key advances the index makes up to and including entry i's
\* size field: per entry one for the length field, one per name byte, one for
\* the size field.
RECURSIVE AdvancesThrough(_, _)
AdvancesThrough(ents, i) ==
    IF i = 0 THEN 0 ELSE AdvancesThrough(ents, i - 1) + Len(ents[i].name) + 2

\* C2: in a version-1/2 archive the data key stored for entry i is 0xDEADCAFE
\* advanced once per length field, name byte and size field of entries 1..i
\* (never reset between entries), and read_entry decrypts the stored bytes of
\* entry i with exactly that key.
C2_V1KeyContinuity ==
    (arc.state \in {"open", "invalid"} /\ arc.version \in {1, 2} /\ cut = 0) =>
        /\ arc.state = "open"
        /\ \A i \in 1..Len(built) :
            LET k == canonical(built[i].name)
                expected == AdvanceN(DEADCAFE, AdvancesThrough(built, i))
            IN  /\ k \in DOMAIN arc.entries
                /\ arc.entries[k].data_key = expected
                /\ (lastRead.op = "read_entry" /\ canonical(lastRead.name) = k) =>
                    /\ lastRead.kind = "ok"
                    /\ lastRead.data =
                        crypt_payload(FReadW(file, SmallVal(arc.entries[k].offset),
                                             arc.entries[k].size), expected)
                    /\ lastRead.data = built[i].payload

\* C2 witness: the second entry of a version-1/2 archive was read, 5 bytes long.
C2_Witness ==
    /\ arc.state = "open" /\ arc.version \in {1, 2} /\ Len(built) = 2
    /\ lastRead.op = "read_entry" /\ lastRead.kind = "ok"
    /\ canonical(lastRead.name) = canonical(built[2].name)
    /\ Len(lastRead.data) = 5

\* The end of the file falls strictly inside the 16-byte head of the index
\* record of one of the entries of a version-3 archive.
V3CutInsideRecordHead ==
    \E i \in 1..Len(built) :
        LET start == 12 + SumLen([j \in 1..(i - 1) |-> built[j].name]) + 16 * (i - 1)
        IN  Len(file) > start /\ Len(file) < start + 16

\* C3: open fails on an archive whose index ends in a partial entry record (it
\* never succeeds with a subset of the entries), and never succeeds with an
\* entry registered whose bytes the file does not hold.
C3_OpenRejectsDamaged ==
    arc.state = "open" =>
        /\ \A k \in DOMAIN arc.entries : read_and_decrypt(file, arc.entries[k]).kind = "ok"
        /\ ~(arc.version = 3 /\ cut > 0 /\ V3CutInsideRecordHead)

\* C4: read_entry fails with KeyError exactly when has_entry is false for the
\* name, and the lookup leaves the archive object as it was.
C4_NotFoundIsKeyError ==
    [][(arc.state = "open" /\ lastRead'.op = "read_entry" /\ lastRead' # lastRead) =>
        /\ (lastRead'.kind = "KeyError") <=> ~has_entry(arc.entries, lastRead'.name)
        /\ arc' = arc]_vars

\* C4 witness: a lookup of an absent name failed with KeyError on an archive
\* that holds entries, after which a present entry was still found.
C4_Witness ==
    /\ arc.state = "open" /\ arc.entries # NoEntries
    /\ lastRead.op = "read_entry" /\ lastRead.kind = "KeyError"
    /\ \E n \in LookupNames : read_entry(file, arc.entries, n).kind = "ok"

(***************************************************************************)
(* ResourceDecryptor: decrypt_resource_file                                *)
(***************************************************************************)
HEADER_LEN == 16
FAKE_HEADER == <<82, 80, 71, 77, 86, 0, 0, 0, 0, 3, 1, 0, 0, 0, 0, 0>>

Min(a, b) == IF a <= b THEN a ELSE b

\* range(min(_HEADER_LEN, len(payload), len(key_bytes)))
XorCount_NoCap(payload_len, key_len) == Min(payload_len, key_len)

XorCount(payload_len, key_len) == Min(HEADER_LEN, Min(payload_len, key_len))

\* len(content) <= _HEADER_LEN
TooShort(content) == Len(content) <= HEADER_LEN

\* decrypt_resource_file: what it raises, and the bytes it writes to dst.
decrypt_resource_file(content, key_bytes, verify_header) ==
    IF TooShort(content) THEN [raised |-> "ValueError", out |-> <<>>]
    ELSE
        LET fake_header == SubSeq(content, 1, HEADER_LEN)
            payload == SubSeq(content, HEADER_LEN + 1, Len(content))
            n == XorCount(Len(payload), Len(key_bytes))
        IN
        IF verify_header /\ fake_header # FAKE_HEADER
        THEN [raised |-> "ValueError", out |-> <<>>]
        ELSE [raised |-> "none",
              out |-> [i \in 1..Len(payload) |->
                        IF i <= n THEN BXor(payload[i], key_bytes[i]) ELSE payload[i]]]

\* _encrypt_payload of the test suite.
encrypt_payload(raw, key_bytes) ==
    [i \in 1..Len(raw) |->
        IF i <= 16 /\ i <= Len(raw) /\ i <= Len(key_bytes)
        THEN BXor(raw[i], key_bytes[i]) ELSE raw[i]]

MaxResLen == 18
MaxKeyLen == 17

KeyOf(len) == [i \in 1..len |-> (i * 53 + 17) % 256]
BadHeader == [FAKE_HEADER EXCEPT ![10] = 2]

DecInit == dec = [op |-> "none"]

\* decrypt_resource_file is called once, on header ++ encrypt_payload(P, K).
Decrypt ==
    /\ dec.op = "none"
    /\ \E klen \in 0..MaxKeyLen, plen \in 0..MaxResLen, verify \in BOOLEAN,
       header \in {FAKE_HEADER, BadHeader} :
        LET key == KeyOf(klen)
            plain == PayloadOf(plen, klen)
            r == decrypt_resource_file(header \o encrypt_payload(plain, key), key, verify)
        IN  dec' = [op |-> "decrypt", key |-> key, plain |-> plain, header |-> header,
                    verify |-> verify, raised |-> r.raised, out |-> r.out]

(***************************************************************************)
(* ResourceDecryptor: prepare_resources                                    *)
(***************************************************************************)
MaxFiles == 2

\* _EXT_MAP
EXT_MAP ==
    [e \in {".rpgmvp", ".rpgmvm", ".rpgmvo", ".png_", ".m4a_", ".ogg_"} |->
        CASE e \in {".rpgmvp", ".png_"} -> ".png"
          [] e \in {".rpgmvm", ".m4a_"} -> ".m4a"
          [] OTHER -> ".ogg"]

\* scan_encrypted_resources: the files whose suffix marks them as obscured, in
\* the order the tree is walked.
RECURSIVE scan_encrypted_resources(_)
scan_encrypted_resources(tree) ==
    IF tree = <<>> THEN <<>>
    ELSE IF Head(tree).ext \in DOMAIN EXT_MAP
         THEN <<Head(tree)>> \o scan_encrypted_resources(Tail(tree))
         ELSE scan_encrypted_resources(Tail(tree))

\* _target_path: the same relative path with the suffix mapped.
target_path(src) == [stem |-> src.stem, ext |-> EXT_MAP[src.ext]]

IsHexDigit(c) == (c >= 48 /\ c <= 57) \/ (c >= 97 /\ c <= 102) \/ (c >= 65 /\ c <= 70)
HexVal(c) == IF c <= 57 THEN c - 48 ELSE IF c >= 97 THEN c - 87 ELSE c - 55

\* bytes.fromhex on a text of hex digits of even length.
FromHex(text) ==
    [i \in 1..(Len(text) \div 2) |-> 16 * HexVal(text[2 * i - 1]) + HexVal(text[2 * i])]

NoKey == <<"None">>

\* load_encryption_key: the lowercased key text, or None.
load_encryption_key(system_json) ==
    IF system_json.kind # "dict" THEN NoKey
    ELSE
        LET key == RStrip(LStrip(system_json.encryptionKey)) IN
        IF key = <<>> THEN NoKey
        ELSE IF Len(key) % 2 # 0 THEN NoKey
        ELSE IF \E i \in 1..Len(key) : ~IsHexDigit(key[i]) THEN NoKey
        ELSE [i \in 1..Len(key) |-> LowerChar(key[i])]

\* What the loop goes on with after a file failed: the rest of the files.
RestAfterFailure_Abort(rest) == <<>>

RestAfterFailure(rest) == rest

\* The for loop of prepare_resources over the scanned files.
RECURSIVE PrepareLoop(_, _, _)
PrepareLoop(files, key_bytes, acc) ==
    IF files = <<>> THEN acc
    ELSE
        LET src == Head(files)
            dst == target_path(src)
            r == decrypt_resource_file(src.content, key_bytes, TRUE)
        IN
        IF r.raised = "none"
        THEN PrepareLoop(Tail(files), key_bytes,
                [acc EXCEPT !.processed = @ + 1,
                            !.out = [t \in DOMAIN acc.out \cup {dst} |->
                                        IF t = dst THEN r.out ELSE acc.out[t]]])
        ELSE PrepareLoop(RestAfterFailure(Tail(files)), key_bytes,
                [acc EXCEPT !.failed = @ + 1])

\* python_error when System.json yields no key (line 173).
NoKeyError_AsPartial == "partial_failure"

NoKeyError == "no_encryption_key"

PrepareResult(status, method, python_error, message, processed, failed) ==
    [status |-> status, method |-> method, python_error |-> python_error,
     message |-> message, processed_files |-> processed, failed_files |-> failed]

\* prepare_resources: the PrepareResult and the output tree it leaves.  The
\* message is kept as its two parts: python_error and what follows it.
prepare_resources(p, out0) ==
    LET encrypted_files == scan_encrypted_resources(p.tree) IN
    IF encrypted_files = <<>>
    THEN [res |-> PrepareResult("not_needed", "none", "", "nothing_to_unpack", 0, 0),
          out |-> out0, key_text |-> <<"unread">>]
    ELSE
        LET key_text == load_encryption_key(p.system_json)
            loop == IF key_text # NoKey
                    THEN PrepareLoop(encrypted_files, FromHex(key_text),
                                     [processed |-> 0, failed |-> 0, out |-> out0])
                    ELSE [processed |-> 0, failed |-> 0, out |-> out0]
            python_error == IF key_text # NoKey THEN "partial_failure" ELSE NoKeyError
        IN
        IF key_text # NoKey /\ loop.failed = 0
        THEN [res |-> PrepareResult("python_ok", "python", "", "unpacked",
                                    loop.processed, loop.failed),
              out |-> loop.out, key_text |-> key_text]
        ELSE IF p.java_runner # "None"
        THEN IF p.java_runner = "ok"
             THEN [res |-> PrepareResult("java_ok", "java", "", "java_msg",
                                         loop.processed, loop.failed),
                   out |-> loop.out, key_text |-> key_text]
             ELSE [res |-> PrepareResult("failed", "none", python_error, "java_msg",
                                         loop.processed, loop.failed),
                   out |-> loop.out, key_text |-> key_text]
        ELSE [res |-> PrepareResult("failed", "none", python_error, "no_java_decrypter",
                                    loop.processed, loop.failed),
              out |-> loop.out, key_text |-> key_text]

\* The project trees: files with distinct paths; the first two obscured paths
\* map to the same target.  The obscured files are a valid one (header and a
\* payload of 17 bytes under the project key), one with a wrong header and one
\* that ends with its header.
ProjectKeyText ==
    <<48, 48, 49, 49, 50, 50, 51, 51, 52, 52, 53, 53, 54, 54, 55, 55,
      56, 56, 57, 57, 65, 65, 98, 98, 67, 67, 100, 100, 69, 69, 102, 102>>
ProjectKey == FromHex(ProjectKeyText)

Paths ==
    {[stem |-> "img/A", ext |-> ".rpgmvp"], [stem |-> "img/A", ext |-> ".png_"],
     [stem |-> "audio/B", ext |-> ".ogg_"], [stem |-> "img/C", ext |-> ".png"]}

PathSalt(path) ==
    CASE path.ext = ".rpgmvp" -> 1 [] path.ext = ".png_" -> 2
      [] path.ext = ".ogg_" -> 3 [] OTHER -> 4

FileOf(path, kind) ==
    LET plain == PayloadOf(17, PathSalt(path)) IN
    [stem |-> path.stem, ext |-> path.ext, kind |-> kind, plain |-> plain,
     content |-> CASE kind = "valid" -> FAKE_HEADER \o encrypt_payload(plain, ProjectKey)
                   [] kind = "bad_header" -> BadHeader \o encrypt_payload(plain, ProjectKey)
                   [] OTHER -> FAKE_HEADER]

TreesOfSize(n) ==
    {[i \in 1..n |-> FileOf(ps[i], ks[i])] :
        ps \in {q \in [1..n -> Paths] : \A i, j \in 1..n : i # j => q[i] # q[j]},
        ks \in [1..n -> {"valid", "bad_header", "header_only"}]}

Trees == UNION {TreesOfSize(n) : n \in 1..MaxFiles}

SystemJsons ==
    {[kind |-> "nofile", encryptionKey |-> <<>>],
     [kind |-> "not_dict", encryptionKey |-> <<>>],
     [kind |-> "dict", encryptionKey |-> <<>>],
     [kind |-> "dict", encryptionKey |-> <<48>>],
     [kind |-> "dict", encryptionKey |-> <<122, 122>>],
     [kind |-> "dict", encryptionKey |-> <<32>> \o ProjectKeyText]}

NoResult == [status |-> "none"]

ResInit ==
    /\ proj = [state |-> "none"]
    /\ outdir = [t \in {} |-> <<>>]
    /\ last = NoResult
    /\ prev = NoResult

\* A project is chosen: its files, its System.json, the Java runner given.
Setup ==
    /\ proj.state = "none"
    /\ \E tree \in Trees, sj \in SystemJsons, jr \in {"None", "ok", "fail"} :
        proj' = [state |-> "ready", tree |-> tree, system_json |-> sj, java_runner |-> jr]
    /\ UNCHANGED <<outdir, last, prev>>

\* System.json is rewritten between two calls.
EditSystemJson ==
    /\ proj.state = "ready"
    /\ \E sj \in SystemJsons : proj' = [proj EXCEPT !.system_json = sj]
    /\ UNCHANGED <<outdir, last, prev>>

\* prepare_resources(game_root, data_dir, cache_dir, java_runner).  The result
\* is kept with what the call saw: the number of scanned files and the key text.
Prepare ==
    /\ proj.state = "ready"
    /\ LET r == prepare_resources(proj, outdir) IN
        /\ last' = r.res @@ [scanned |-> Len(scan_encrypted_resources(proj.tree)),
                             key_text |-> r.key_text, tree |-> proj.tree]
        /\ outdir' = r.out
    /\ prev' = last
    /\ UNCHANGED proj

ResNext == Setup \/ EditSystemJson \/ Prepare

(***************************************************************************)
(* Claims about the resource decryptor                                     *)
(***************************************************************************)
\* C5 as stated: for every key K and payload P, the empty payload included,
\* decrypting FAKE_HEADER ++ xorFirst16(P, K) with K and header verification
\* on yields exactly P.
C5_RoundTripAnyPayload ==
    (dec.op = "decrypt" /\ dec.verify /\ dec.header = FAKE_HEADER) =>
        dec.raised = "none" /\ dec.out = dec.plain

\* C5 amended: the round trip holds for every key and every payload of at least
\* one byte (payloads shorter than 16 bytes included); for the empty payload the
\* file is no longer than the header and decrypt_resource_file raises ValueError.
C5_RoundTripNonEmpty ==
    (dec.op = "decrypt" /\ dec.verify /\ dec.header = FAKE_HEADER) =>
        /\ dec.plain # <<>> => dec.raised = "none" /\ dec.out = dec.plain
        /\ dec.plain = <<>> => dec.raised = "ValueError"

\* C5 witness: a payload and a key both longer than 16 bytes went through, and
\* the stored bytes differed from the plain ones.
C5_Witness ==
    /\ dec.op = "decrypt" /\ dec.verify /\ dec.header = FAKE_HEADER
    /\ Len(dec.plain) > 16 /\ Len(dec.key) > 16
    /\ encrypt_payload(dec.plain, dec.key) # dec.plain
    /\ dec.raised = "none" /\ dec.out = dec.plain

\* The call took the branch `if key_text:` (a key was read from System.json).
KeyBranch(r) == r.status # "none" /\ r.key_text # NoKey /\ r.key_text # <<"unread">>

\* The call found obscured files and read no key from System.json.
NoKeyBranch(r) == r.status # "none" /\ r.key_text = NoKey

\* decrypt_resource_file accepts the file: more than a header, and the header right.
Decodable(f) == Len(f.content) > HEADER_LEN /\ SubSeq(f.content, 1, HEADER_LEN) = FAKE_HEADER

C7_NoKeyStatusDistinct ==
    \A r1 \in {last, prev} : \A r2 \in {last, prev} :
        (NoKeyBranch(r1) /\ KeyBranch(r2) /\ r2.failed_files > 0) =>
            r1.status # r2.status

\* C7 amended: without a key the status is "failed" or "java_ok", the values a
\* partial failure with a key reports too; the two results differ in
\* failed_files (0 without a key, at least 1 after a partial failure) and, when
\* the status is "failed", in the python_error part of the message.
C7_NoKeyToldByCountsAndMessage ==
    \A r \in {last, prev} :
        /\ NoKeyBranch(r) =>
            /\ r.status \in {"failed", "java_ok"}
            /\ r.processed_files = 0 /\ r.failed_files = 0
            /\ r.status = "failed" => r.python_error = "no_encryption_key"
        /\ (KeyBranch(r) /\ r.failed_files > 0) =>
            /\ r.status \in {"failed", "java_ok"}
            /\ r.status = "failed" => r.python_error = "partial_failure"

\* C7 witness: a call without a key and a call with a key and failed files
\* reported the same status.
C7_Witness ==
    /\ NoKeyBranch(last) /\ KeyBranch(prev) /\ prev.failed_files > 0
    /\ last.status = "failed" /\ prev.status = "failed"
    /\ last.python_error # prev.python_error

(***************************************************************************)
(* Values: what json.load, marshal_loads and the adapter produce           *)
(***************************************************************************)
VNone == [t |-> "none"]
VInt(n) == [t |-> "int", v |-> n]
VBool(b) == [t |-> "bool", b |-> b]
\* A str that names an attribute or a key, written as a string.
VStr(s) == [t |-> "str", s |-> s]
\* A str of data, as the sequence of its code points.
VText(cp) == [t |-> "str", cp |-> cp]
\* A RubyObject with its attributes.
VObj(map) == [t |-> "object", map |-> map]
VList(items) == [t |-> "list", items |-> items]
VDict(map) == [t |-> "dict", map |-> map]
EmptyMap == [k \in {} |-> VNone]

\* json.load on the documents the model writes: an integer of one digit, [],
\* null; anything else raises JSONDecodeError (or UnicodeDecodeError).
json_load(bytes) ==
    IF Len(bytes) = 1 /\ bytes[1] >= 48 /\ bytes[1] <= 57
    THEN [raised |-> "none", value |-> VInt(bytes[1] - 48)]
    ELSE IF bytes = <<91, 93>> THEN [raised |-> "none", value |-> VList(<<>>)]
    ELSE IF bytes = <<110, 117, 108, 108>> THEN [raised |-> "none", value |-> VNone]
    ELSE [raised |-> "JSONDecodeError", value |-> VNone]

\* The object-graph deserializer on the part of the Marshal 4.8 format the
\* model writes: nil, integers 0..122, arrays and hashes.
MFail == [ok |-> FALSE, val |-> VNone, pos |-> 0]

\* A packed count or integer at pos: 0 is 0x00, 1..122 are n + 5.
MInt(bs, pos) ==
    IF pos > Len(bs) THEN MFail
    ELSE IF bs[pos] = 0 THEN [ok |-> TRUE, val |-> 0, pos |-> pos + 1]
    ELSE IF bs[pos] >= 6 /\ bs[pos] <= 127 THEN [ok |-> TRUE, val |-> bs[pos] - 5, pos |-> pos + 1]
    ELSE MFail

RECURSIVE MRead(_, _)
RECURSIVE MReadItems(_, _, _, _)
RECURSIVE MReadPairs(_, _, _, _)

MReadItems(bs, pos, n, acc) ==
    IF n = 0 THEN [ok |-> TRUE, val |-> VList(acc), pos |-> pos]
    ELSE LET x == MRead(bs, pos) IN
         IF ~x.ok THEN MFail ELSE MReadItems(bs, x.pos, n - 1, Append(acc, x.val))

\* A key that is an array or a hash cannot be a key of the Python dict.
MReadPairs(bs, pos, n, acc) ==
    IF n = 0 THEN [ok |-> TRUE, val |-> VDict(acc), pos |-> pos]
    ELSE LET k == MRead(bs, pos) IN
         IF ~k.ok \/ k.val.t \in {"list", "dict"} THEN MFail
         ELSE LET v == MRead(bs, k.pos) IN
              IF ~v.ok THEN MFail
              ELSE MReadPairs(bs, v.pos, n - 1,
                        [x \in DOMAIN acc \cup {k.val} |-> IF x = k.val THEN v.val ELSE acc[x]])

MRead(bs, pos) ==
    IF pos > Len(bs) THEN MFail
    ELSE CASE bs[pos] = 48 -> [ok |-> TRUE, val |-> VNone, pos |-> pos + 1]
           [] bs[pos] = 105 ->
                LET n == MInt(bs, pos + 1) IN
                IF n.ok THEN [ok |-> TRUE, val |-> VInt(n.val), pos |-> n.pos] ELSE MFail
           [] bs[pos] = 91 ->
                LET n == MInt(bs, pos + 1) IN
                IF n.ok THEN MReadItems(bs, n.pos, n.val, <<>>) ELSE MFail
           [] bs[pos] = 123 ->
                LET n == MInt(bs, pos + 1) IN
                IF n.ok THEN MReadPairs(bs, n.pos, n.val, EmptyMap) ELSE MFail
           [] OTHER -> MFail

\* marshal_loads: the version bytes 4, 8 and one value; raises on anything else.
marshal_loads(bytes) ==
    IF Len(bytes) < 2 \/ SubSeq(bytes, 1, 2) # <<4, 8>>
    THEN [raised |-> "Exception", value |-> VNone]
    ELSE LET r == MRead(bytes, 3) IN
         IF r.ok THEN [raised |-> "none", value |-> r.val]
         ELSE [raised |-> "Exception", value |-> VNone]

(***************************************************************************)
(* VXDataAdapter (the converters the loader's logical names reach)         *)
(***************************************************************************)
\* isinstance(value, (RubyObject, dict))
IsRecord(value) == value.t \in {"object", "dict"}

\* _attr: attributes.get(name, default) or obj.get(name, default); neither a
\* RubyObject nor a dict: default.
attr(obj, name, default) ==
    IF IsRecord(obj) /\ VStr(name) \in DOMAIN obj.map THEN obj.map[VStr(name)] ELSE default

\* _first_attr: the first alias whose value is not None.
RECURSIVE first_attr(_, _, _)
first_attr(obj, names, default) ==
    IF names = <<>> THEN default
    ELSE IF attr(obj, Head(names), VNone) # VNone THEN attr(obj, Head(names), VNone)
    ELSE first_attr(obj, Tail(names), default)

\* _to_int(value, default): int(value), and default where int() raises.
to_int(value, default) ==
    CASE value.t = "int" -> value.v
      [] value.t = "bool" -> IF value.b THEN 1 ELSE 0
      [] OTHER -> default

\* _to_bool: bool(value).
to_bool(value) ==
    CASE value.t = "none" -> FALSE
      [] value.t = "bool" -> value.b
      [] value.t = "int" -> value.v # 0
      [] value.t = "str" -> value # VText(<<>>)
      [] value.t = "list" -> value.items # <<>>
      [] value.t = "dict" -> DOMAIN value.map # {}
      [] OTHER -> TRUE

\* str(n) of an integer, as code points.
RECURSIVE Digits(_)
Digits(n) ==
    IF n < 0 THEN <<45>> \o Digits(0 - n)
    ELSE IF n < 10 THEN <<48 + n>>
    ELSE Digits(n \div 10) \o <<48 + (n % 10)>>

\* _as_text: None is "", text stays, anything else is str(value).
as_text(value) ==
    CASE value.t = "none" -> VText(<<>>)
      [] value.t = "str" -> value
      [] value.t = "int" -> VText(Digits(value.v))
      [] value.t = "bool" -> VText(IF value.b THEN <<84, 114, 117, 101>>
                                   ELSE <<70, 97, 108, 115, 101>>)
      [] OTHER -> [t |-> "str", repr |-> value]

\* _to_plain: nil, booleans and integers stay; arrays and hashes are rebuilt.
\* str(key) of an attribute without its leading "@", for the attributes the
\* model's objects carry.
PlainName(key) ==
    CASE key = VStr("@id") -> VStr("id")
      [] key = VStr("@name") -> VStr("name")
      [] key = VStr("@x") -> VStr("x")
      [] key = VStr("@pages") -> VStr("pages")
      [] key = VStr("@code") -> VStr("code")
      [] key = VStr("@parameters") -> VStr("parameters")
      [] OTHER -> key

RECURSIVE to_plain(_)
to_plain(value) ==
    CASE value.t = "list" -> VList([i \in 1..Len(value.items) |-> to_plain(value.items[i])])
      [] value.t = "object" ->
            VDict([k \in {PlainName(x) : x \in DOMAIN value.map} |->
                    to_plain(value.map[CHOOSE x \in DOMAIN value.map : PlainName(x) = k])])
      [] value.t = "dict" ->
            VDict([k \in {to_plain(x) : x \in DOMAIN value.map} |->
                    to_plain(value.map[CHOOSE x \in DOMAIN value.map : to_plain(x) = k])])
      [] OTHER -> value

\* out = [None] * (max_id + 1): the slots 0..max_id.
DenseLength_NoZeroSlot(max_id) == max_id

DenseLength(max_id) == max_id + 1

MaxOf(S) == IF S = {} THEN 0 ELSE CHOOSE x \in S : \A y \in S : y <= x

\* _convert_map_infos: a dense list indexed by map id; not a mapping: [].
convert_map_infos(raw) ==
    IF raw.t # "dict" THEN VList(<<>>)
    ELSE
        LET keys == {k \in DOMAIN raw.map : IsRecord(raw.map[k]) /\ to_int(k, 0) > 0}
            ids == {to_int(k, 0) : k \in keys}
            src(id) == raw.map[CHOOSE k \in keys : to_int(k, 0) = id]
            info(id) ==
                VDict([f \in {VStr("id"), VStr("name"), VStr("parentId"), VStr("order")} |->
                    CASE f = VStr("id") -> VInt(id)
                      [] f = VStr("name") ->
                            as_text(first_attr(src(id), <<"@name", "name">>,
                                               VText(<<22320, 22270, 35>> \o Digits(id))))
                      [] f = VStr("parentId") ->
                            VInt(to_int(first_attr(src(id),
                                <<"@parent_id", "parent_id", "@parentId", "parentId">>,
                                VInt(0)), 0))
                      [] OTHER ->
                            VInt(to_int(first_attr(src(id), <<"@order", "order">>, VInt(0)), 0))])
        IN  VList([i \in 1..DenseLength(MaxOf(ids)) |->
                    IF (i - 1) \in ids THEN info(i - 1) ELSE VNone])

\* _normalize_named_array
normalize_named_array(value) ==
    IF to_plain(value).t = "list" THEN to_plain(value) ELSE VList(<<>>)

\* _default_equip_types
default_equip_types ==
    VList(<<VText(<<>>), VText(<<27494, 22120>>), VText(<<30462, 29260>>),
            VText(<<22836, 37096>>), VText(<<36523, 20307>>), VText(<<39280, 21697>>)>>)

\* _convert_system: a mapping of the eight system tables; not a mapping: {}.
convert_system(raw) ==
    IF ~IsRecord(raw) THEN VDict(EmptyMap)
    ELSE
        LET equip == normalize_named_array(first_attr(raw,
                        <<"@equip_types", "equip_types", "@equipTypes", "equipTypes">>,
                        VList(<<>>)))
            table(names) == normalize_named_array(first_attr(raw, names, VList(<<>>)))
        IN  VDict([f \in {VStr("gameTitle"), VStr("switches"), VStr("variables"),
                          VStr("elements"), VStr("weaponTypes"), VStr("armorTypes"),
                          VStr("equipTypes"), VStr("skillTypes")} |->
                CASE f = VStr("gameTitle") ->
                        as_text(first_attr(raw,
                            <<"@game_title", "game_title", "@gameTitle", "gameTitle">>, VText(<<>>)))
                  [] f = VStr("switches") -> table(<<"@switches", "switches">>)
                  [] f = VStr("variables") -> table(<<"@variables", "variables">>)
                  [] f = VStr("elements") -> table(<<"@elements", "elements">>)
                  [] f = VStr("weaponTypes") ->
                        table(<<"@weapon_types", "weapon_types", "@weaponTypes", "weaponTypes">>)
                  [] f = VStr("armorTypes") ->
                        table(<<"@armor_types", "armor_types", "@armorTypes", "armorTypes">>)
                  [] f = VStr("equipTypes") ->
                        IF equip.items = <<>> THEN default_equip_types ELSE equip
                  [] OTHER ->
                        table(<<"@skill_types", "skill_types", "@skillTypes", "skillTypes">>)])

\* A dict literal: the pairs <<key, value>> of its items.
DictOf(pairs) ==
    VDict([k \in {VStr(pairs[i][1]) : i \in DOMAIN pairs} |->
            pairs[CHOOSE i \in DOMAIN pairs : VStr(pairs[i][1]) = k][2]])

\* dict.get(key, default) on a converted record.
Get(d, key, default) == IF VStr(key) \in DOMAIN d.map THEN d.map[VStr(key)] ELSE default

\* x or [] on a converted value.
OrEmptyList(x) == IF to_bool(x) THEN x ELSE VList(<<>>)

\* The elements of a list for which keep holds, in their order.
RECURSIVE Records(_)
Records(items) ==
    IF items = <<>> THEN <<>>
    ELSE IF IsRecord(Head(items)) THEN <<Head(items)>> \o Records(Tail(items))
    ELSE Records(Tail(items))

RECURSIVE NotNone(_)
NotNone(items) ==
    IF items = <<>> THEN <<>>
    ELSE IF Head(items) # VNone THEN <<Head(items)>> \o NotNone(Tail(items))
    ELSE NotNone(Tail(items))

\* _convert_command_list: the commands that are objects or mappings.
convert_command_list(raw_list) ==
    IF raw_list.t # "list" THEN VList(<<>>)
    ELSE LET cmds == Records(raw_list.items) IN
         VList([i \in 1..Len(cmds) |->
            DictOf(<<
              <<"code", VInt(to_int(first_attr(cmds[i], <<"@code", "code">>, VInt(0)), 0))>>,
              <<"indent", VInt(to_int(first_attr(cmds[i], <<"@indent", "indent">>, VInt(0)), 0))>>,
              <<"parameters", OrEmptyList(to_plain(first_attr(cmds[i],
                                    <<"@parameters", "parameters">>, VList(<<>>))))>> >>)])

\* _convert_condition
convert_condition(raw_cond) ==
    LET flag(names) == VBool(to_bool(first_attr(raw_cond, names, VBool(FALSE))))
        num(names) == VInt(to_int(first_attr(raw_cond, names, VInt(0)), 0))
    IN  DictOf(<<
          <<"switch1Valid", flag(<<"@switch1_valid", "switch1Valid">>)>>,
          <<"switch2Valid", flag(<<"@switch2_valid", "switch2Valid">>)>>,
          <<"variableValid", flag(<<"@variable_valid", "variableValid">>)>>,
          <<"selfSwitchValid", flag(<<"@self_switch_valid", "selfSwitchValid">>)>>,
          <<"itemValid", flag(<<"@item_valid", "itemValid">>)>>,
          <<"actorValid", flag(<<"@actor_valid", "actorValid">>)>>,
          <<"switch1Id", num(<<"@switch1_id", "switch1Id">>)>>,
          <<"switch2Id", num(<<"@switch2_id", "switch2Id">>)>>,
          <<"variableId", num(<<"@variable_id", "variableId">>)>>,
          <<"variableValue", num(<<"@variable_value", "variableValue">>)>>,
          <<"selfSwitchCh", as_text(first_attr(raw_cond,
                                <<"@self_switch_ch", "selfSwitchCh">>, VText(<<65>>)))>>,
          <<"itemId", num(<<"@item_id", "itemId">>)>>,
          <<"actorId", num(<<"@actor_id", "actorId">>)>> >>)

\* str.startswith("$")
StartsWithDollar(text) ==
    "cp" \in DOMAIN text /\ text.cp # <<>> /\ text.cp[1] = 36

\* _convert_page_image
convert_page_image(raw_page) ==
    LET graphic == first_attr(raw_page, <<"@graphic", "graphic">>, VNone)
        character_name == as_text(first_attr(graphic,
                            <<"@character_name", "character_name", "characterName">>,
                            VText(<<>>)))
    IN  DictOf(<<
          <<"tileId", VInt(to_int(first_attr(graphic,
                            <<"@tile_id", "tile_id", "tileId">>, VInt(0)), 0))>>,
          <<"characterName", character_name>>,
          <<"characterIndex", VInt(to_int(first_attr(graphic,
                            <<"@character_index", "character_index", "characterIndex">>,
                            VInt(0)), 0))>>,
          <<"direction", VInt(to_int(first_attr(graphic,
                            <<"@direction", "direction">>, VInt(2)), 2))>>,
          <<"pattern", VInt(to_int(first_attr(graphic,
                            <<"@pattern", "pattern">>, VInt(0)), 0))>>,
          <<"isBigCharacter", VBool(StartsWithDollar(character_name))>>,
          <<"faceName", VText(<<>>)>>,
          <<"faceIndex", VInt(0)>> >>)

\* _convert_page
convert_page(raw_page) ==
    DictOf(<<
      <<"trigger", VInt(to_int(first_attr(raw_page, <<"@trigger", "trigger">>, VInt(0)), 0))>>,
      <<"conditions", convert_condition(first_attr(raw_page,
                            <<"@condition", "conditions">>, VDict(EmptyMap)))>>,
      <<"image", convert_page_image(raw_page)>>,
      <<"list", convert_command_list(first_attr(raw_page,
                            <<"@list", "list">>, VList(<<>>)))>> >>)

\* _convert_event: the record of an event; whatever raw_evt is, a record.
convert_event(raw_evt) ==
    LET pages_raw == first_attr(raw_evt, <<"@pages", "pages">>, VList(<<>>))
        kept == IF pages_raw.t = "list" THEN NotNone(pages_raw.items) ELSE <<>>
    IN  DictOf(<<
          <<"id", VInt(to_int(first_attr(raw_evt, <<"@id", "id">>, VInt(0)), 0))>>,
          <<"name", as_text(first_attr(raw_evt, <<"@name", "name">>, VText(<<>>)))>>,
          <<"x", VInt(to_int(first_attr(raw_evt, <<"@x", "x">>, VInt(0)), 0))>>,
          <<"y", VInt(to_int(first_attr(raw_evt, <<"@y", "y">>, VInt(0)), 0))>>,
          <<"pages", VList([i \in 1..Len(kept) |-> convert_page(kept[i])])>> >>)

\* _convert_event_dict_to_list: a dense list indexed by event id; every value
\* of the mapping is converted, and the key is the id.  Of two keys of one id
\* the later item wins; the mappings of the model have no such keys.
convert_event_dict_to_list(raw_events) ==
    IF raw_events.t # "dict" THEN VList(<<>>)
    ELSE
        LET evt_id(k) == to_int(k, to_int(Get(convert_event(raw_events.map[k]),
                                              "id", VInt(0)), 0))
            keys == {k \in DOMAIN raw_events.map : evt_id(k) > 0}
            ids == {evt_id(k) : k \in keys}
            evt(id) ==
                LET e == convert_event(raw_events.map[CHOOSE k \in keys : evt_id(k) = id])
                IN  VDict([f \in DOMAIN e.map |-> IF f = VStr("id") THEN VInt(id) ELSE e.map[f]])
        IN  VList([i \in 1..DenseLength(MaxOf(ids)) |->
                    IF (i - 1) \in ids THEN evt(i - 1) ELSE VNone])

\* _convert_map
convert_map(raw) ==
    IF ~IsRecord(raw) THEN VDict(EmptyMap)
    ELSE
        LET bgm_raw == first_attr(raw, <<"@bgm", "bgm">>, VDict(EmptyMap))
            bgm == IF IsRecord(bgm_raw)
                   THEN DictOf(<<
                          <<"name", as_text(first_attr(bgm_raw, <<"@name", "name">>,
                                                       VText(<<>>)))>>,
                          <<"volume", VInt(to_int(first_attr(bgm_raw,
                                            <<"@volume", "volume">>, VInt(100)), 0))>>,
                          <<"pitch", VInt(to_int(first_attr(bgm_raw,
                                            <<"@pitch", "pitch">>, VInt(100)), 0))>> >>)
                   ELSE DictOf(<< <<"name", VText(<<>>)>> >>)
            enc_raw == first_attr(raw,
                        <<"@encounter_list", "encounter_list", "@encounterList", "encounterList">>,
                        VList(<<>>))
            encs == IF enc_raw.t = "list" THEN Records(enc_raw.items) ELSE <<>>
            num(names) == VInt(to_int(first_attr(raw, names, VInt(0)), 0))
        IN  DictOf(<<
              <<"width", num(<<"@width", "width">>)>>,
              <<"height", num(<<"@height", "height">>)>>,
              <<"bgm", bgm>>,
              <<"parallaxName", as_text(first_attr(raw,
                    <<"@parallax_name", "parallax_name", "@parallaxName", "parallaxName">>,
                    VText(<<>>)))>>,
              <<"tilesetId", num(<<"@tileset_id", "tileset_id", "@tilesetId", "tilesetId">>)>>,
              <<"encounterStep", num(<<"@encounter_step", "encounter_step",
                                       "@encounterStep", "encounterStep">>)>>,
              <<"encounterList", VList([i \in 1..Len(encs) |->
                    DictOf(<<
                      <<"troopId", VInt(to_int(first_attr(encs[i],
                            <<"@troop_id", "troop_id", "@troopId", "troopId">>, VInt(0)), 0))>>,
                      <<"weight", VInt(to_int(first_attr(encs[i],
                            <<"@weight", "weight">>, VInt(1)), 1))>>,
                      <<"regionSet", OrEmptyList(to_plain(first_attr(encs[i],
                            <<"@region_set", "region_set", "@regionSet", "regionSet">>,
                            VList(<<>>))))>> >>)])>>,
              <<"events", convert_event_dict_to_list(first_attr(raw,
                            <<"@events", "events">>, VDict(EmptyMap)))>>,
              <<"data", OrEmptyList(to_plain(first_attr(raw, <<"@data", "data">>,
                                                        VList(<<>>))))>> >>)

\* What _convert_named_list and _convert_tilesets put in the slot of an element that is neither
\* None nor a record: its plain value.
SlotOfNonRecord_None(item) == VNone

SlotOfNonRecord(item) == to_plain(item)

\* _base_entry
base_entry(item, idx) ==
    DictOf(<<
      <<"id", VInt(to_int(first_attr(item, <<"@id", "id">>, VInt(idx)), 0))>>,
      <<"name", as_text(first_attr(item, <<"@name", "name">>, VText(<<>>)))>>,
      <<"description", as_text(first_attr(item, <<"@description", "description">>,
                                          VText(<<>>)))>>,
      <<"iconIndex", VInt(to_int(first_attr(item,
                        <<"@icon_index", "icon_index", "iconIndex">>, VInt(0)), 0))>>,
      <<"note", as_text(first_attr(item, <<"@note", "note">>, VText(<<>>)))>> >>)

\* dict.update: the items of extra replace and extend those of entry.
Update(entry, extra) ==
    VDict([k \in DOMAIN entry.map \cup DOMAIN extra.map |->
            IF k \in DOMAIN extra.map THEN extra.map[k] ELSE entry.map[k]])

\* str.strip()
StripText(text) ==
    IF "cp" \in DOMAIN text THEN VText(RStrip(LStrip(text.cp))) ELSE text

\* _normalize_tileset_names
normalize_tileset_names(value) ==
    LET arr == to_plain(value) IN
    IF arr.t # "list" THEN <<>>
    ELSE [i \in 1..Len(arr.items) |-> StripText(as_text(arr.items[i]))]

\* The number of slots of the tile-image name list.
TilesetSlots == 9

\* The slots of a record that has only the legacy fields: the first five
\* autotile names, then the main name at slot 5 if it is not empty.
LegacySlots_MainAfterAutotiles(autotile_names, tileset_name) ==
    [i \in 1..TilesetSlots |->
        IF i <= 5 /\ i <= Len(autotile_names) THEN autotile_names[i]
        ELSE IF i = Len(autotile_names) + 1 /\ tileset_name # VText(<<>>) THEN tileset_name
        ELSE VText(<<>>)]

LegacySlots(autotile_names, tileset_name) ==
    [i \in 1..TilesetSlots |->
        IF i <= 5 /\ i <= Len(autotile_names) THEN autotile_names[i]
        ELSE IF i = 6 /\ tileset_name # VText(<<>>) THEN tileset_name
        ELSE VText(<<>>)]

\* _convert_tilesets
convert_tilesets(raw) ==
    IF raw.t # "list" THEN VList(<<>>)
    ELSE
        LET entry(idx) ==
                LET item == raw.items[idx + 1]
                    given == normalize_tileset_names(first_attr(item,
                                <<"@tileset_names", "tileset_names",
                                  "@tilesetNames", "tilesetNames">>, VList(<<>>)))
                    autotile_names == normalize_tileset_names(first_attr(item,
                                <<"@autotile_names", "autotile_names",
                                  "@autotileNames", "autotileNames">>, VList(<<>>)))
                    tileset_name == StripText(as_text(first_attr(item,
                                <<"@tileset_name", "tileset_name",
                                  "@tilesetName", "tilesetName">>, VText(<<>>))))
                    tileset_names ==
                        IF given = <<>> THEN LegacySlots(autotile_names, tileset_name)
                        ELSE IF Len(given) < TilesetSlots
                        THEN given \o [i \in 1..(TilesetSlots - Len(given)) |-> VText(<<>>)]
                        ELSE IF Len(given) > TilesetSlots THEN SubSeq(given, 1, TilesetSlots)
                        ELSE given
                    flags_raw == to_plain(first_attr(item,
                                <<"@flags", "flags", "@passages", "passages">>, VList(<<>>)))
                    flags == IF flags_raw.t = "list"
                             THEN [i \in 1..Len(flags_raw.items) |->
                                    VInt(to_int(flags_raw.items[i], 0))]
                             ELSE <<>>
                IN  Update(base_entry(item, idx),
                           DictOf(<<
                             <<"tilesetNames", VList(tileset_names)>>,
                             <<"tilesetName", tileset_name>>,
                             <<"autotileNames", VList(autotile_names)>>,
                             <<"flags", VList(flags)>> >>))
        IN  VList([i \in 1..Len(raw.items) |->
                    IF raw.items[i] = VNone THEN VNone
                    ELSE IF ~IsRecord(raw.items[i]) THEN SlotOfNonRecord(raw.items[i])
                    ELSE entry(i - 1)])

\* _to_float: float(value), and default where float() raises; the numbers
\* of the model are whole.
to_float(value, default) == VInt(to_int(value, default))

\* _convert_named_list: one slot per element, None for None, the plain value
\* for what is no record, _base_entry updated by the extra fields for a record.
convert_named_list(raw, extra_builder(_)) ==
    IF raw.t # "list" THEN VList(<<>>)
    ELSE VList([i \in 1..Len(raw.items) |->
            IF raw.items[i] = VNone THEN VNone
            ELSE IF ~IsRecord(raw.items[i]) THEN SlotOfNonRecord(raw.items[i])
            ELSE Update(base_entry(raw.items[i], i - 1), extra_builder(raw.items[i]))])

\* build_extra of _convert_common_events
common_event_extra(item) ==
    DictOf(<<
      <<"trigger", VInt(to_int(first_attr(item, <<"@trigger", "trigger">>, VInt(0)), 0))>>,
      <<"switchId", VInt(to_int(first_attr(item,
                        <<"@switch_id", "switch_id", "@switchId", "switchId">>, VInt(0)), 0))>>,
      <<"list", convert_command_list(first_attr(item, <<"@list", "list">>, VList(<<>>)))>> >>)

\* _convert_common_events
convert_common_events(raw) == convert_named_list(raw, common_event_extra)

\* build_extra of _convert_troops
troop_extra(item) ==
    LET members_raw == first_attr(item, <<"@members", "members">>, VList(<<>>))
        ms == IF members_raw.t = "list" THEN Records(members_raw.items) ELSE <<>>
    IN  DictOf(<< <<"members", VList([i \in 1..Len(ms) |->
            DictOf(<<
              <<"enemyId", VInt(to_int(first_attr(ms[i],
                    <<"@enemy_id", "enemy_id", "@enemyId", "enemyId">>, VInt(0)), 0))>>,
              <<"hidden", VBool(to_bool(first_attr(ms[i], <<"@hidden", "hidden">>,
                                                   VBool(FALSE))))>> >>)])>> >>)

\* _convert_troops
convert_troops(raw) == convert_named_list(raw, troop_extra)

\* _convert_traits
convert_traits(item) ==
    LET traits_raw == first_attr(item, <<"@features", "features", "@traits", "traits">>,
                                 VList(<<>>))
        ts == IF traits_raw.t = "list" THEN Records(traits_raw.items) ELSE <<>>
    IN  VList([i \in 1..Len(ts) |->
            DictOf(<<
              <<"code", VInt(to_int(first_attr(ts[i], <<"@code", "code">>, VInt(0)), 0))>>,
              <<"dataId", VInt(to_int(first_attr(ts[i],
                    <<"@data_id", "data_id", "@dataId", "dataId">>, VInt(0)), 0))>>,
              <<"value", to_float(first_attr(ts[i], <<"@value", "value">>, VInt(0)), 0)>> >>)])

\* _extract_params: the first 8 numbers of a non-empty params list, padded
\* with 0; otherwise the 8 numbers of the legacy attributes.
extract_params(item) ==
    LET raw == to_plain(first_attr(item, <<"@params", "params">>, VNone))
        num(names) == VInt(to_int(first_attr(item, names, VInt(0)), 0))
    IN  IF raw.t = "list" /\ raw.items # <<>>
        THEN VList([i \in 1..8 |->
                IF i <= Len(raw.items) THEN VInt(to_int(raw.items[i], 0)) ELSE VInt(0)])
        ELSE VList(<<num(<<"@maxhp", "maxhp", "@mhp", "mhp">>),
                     num(<<"@maxsp", "maxsp", "@maxmp", "maxmp", "@mmp", "mmp">>),
                     num(<<"@atk", "atk", "@str", "str">>),
                     num(<<"@def", "def", "@vit", "vit">>),
                     num(<<"@mat", "mat", "@spi", "spi", "@int", "int">>),
                     num(<<"@mdf", "mdf">>),
                     num(<<"@agi", "agi", "@dex", "dex">>),
                     num(<<"@luk", "luk">>)>>)

\* build_extra of _convert_weapons
weapon_extra(item) ==
    DictOf(<<
      <<"price", VInt(to_int(first_attr(item, <<"@price", "price">>, VInt(0)), 0))>>,
      <<"wtypeId", VInt(to_int(first_attr(item,
            <<"@wtype_id", "wtype_id", "@wtypeId", "wtypeId">>, VInt(0)), 0))>>,
      <<"etypeId", VInt(to_int(first_attr(item,
            <<"@etype_id", "etype_id", "@etypeId", "etypeId">>, VInt(1)), 1))>>,
      <<"params", extract_params(item)>>,
      <<"traits", convert_traits(item)>> >>)

\* _convert_weapons
convert_weapons(raw) == convert_named_list(raw, weapon_extra)

\* build_extra of _convert_armors
armor_extra(item) ==
    DictOf(<<
      <<"price", VInt(to_int(first_attr(item, <<"@price", "price">>, VInt(0)), 0))>>,
      <<"atypeId", VInt(to_int(first_attr(item,
            <<"@atype_id", "atype_id", "@atypeId", "atypeId">>, VInt(0)), 0))>>,
      <<"etypeId", VInt(to_int(first_attr(item,
            <<"@etype_id", "etype_id", "@etypeId", "etypeId">>, VInt(2)), 2))>>,
      <<"params", extract_params(item)>>,
      <<"traits", convert_traits(item)>> >>)

\* _convert_armors
convert_armors(raw) == convert_named_list(raw, armor_extra)

\* build_extra of _convert_states
state_extra(item) == DictOf(<< <<"traits", convert_traits(item)>> >>)

\* _convert_states
convert_states(raw) == convert_named_list(raw, state_extra)

\* Path(name).name: what follows the last "/".
RECURSIVE BaseName(_)
BaseName(name) ==
    IF \E i \in 1..Len(name) : name[i] = Slash
    THEN BaseName(Tail(name)) ELSE name

Lower(name) == [i \in 1..Len(name) |-> LowerChar(name[i])]

EndsWith(name, suffix) ==
    /\ Len(name) >= Len(suffix)
    /\ SubSeq(name, Len(name) - Len(suffix) + 1, Len(name)) = suffix

\* Path(name).stem: the base name without its last suffix.
Stem(name) ==
    LET b == BaseName(name)
        dots == {i \in 2..Len(b) : b[i] = 46}
    IN  IF dots = {} \/ MaxOf(dots) = Len(b) THEN b ELSE SubSeq(b, 1, MaxOf(dots) - 1)

StemMapInfos == <<109, 97, 112, 105, 110, 102, 111, 115>>
StemPrefixMap == <<109, 97, 112>>
StemTilesets == <<116, 105, 108, 101, 115, 101, 116, 115>>
StemCommonEvents == <<99, 111, 109, 109, 111, 110, 101, 118, 101, 110, 116, 115>>
StemTroops == <<116, 114, 111, 111, 112, 115>>
StemWeapons == <<119, 101, 97, 112, 111, 110, 115>>

StemArmors == <<97, 114, 109, 111, 114, 115>>

StemStates == <<115, 116, 97, 116, 101, 115>>
StemSystem == <<115, 121, 115, 116, 101, 109>>

\* str.startswith(prefix)
StartsWith(name, prefix) ==
    Len(name) >= Len(prefix) /\ SubSeq(name, 1, Len(prefix)) = prefix

\* VXDataAdapter.adapt, for every logical name but Items, Enemies and
\* Skills, whose tables the model does not convert.
adapt(logical_name, raw_obj) ==
    LET stem == Lower(Stem(logical_name)) IN
    IF stem = StemMapInfos THEN convert_map_infos(raw_obj)
    ELSE IF StartsWith(stem, StemPrefixMap) THEN convert_map(raw_obj)
    ELSE IF stem = StemSystem THEN convert_system(raw_obj)
    ELSE IF stem = StemCommonEvents THEN convert_common_events(raw_obj)
    ELSE IF stem = StemTroops THEN convert_troops(raw_obj)
    ELSE IF stem = StemWeapons THEN convert_weapons(raw_obj)
    ELSE IF stem = StemArmors THEN convert_armors(raw_obj)
    ELSE IF stem = StemStates THEN convert_states(raw_obj)
    ELSE IF stem = StemTilesets THEN convert_tilesets(raw_obj)
    ELSE to_plain(raw_obj)

(***************************************************************************)
(* DatabaseManager (tilesets)                                              *)
(***************************************************************************)
\* get_tileset: the first record of the table whose id is tileset_id.
get_tileset(tilesets, tileset_id) ==
    IF tilesets.t # "list" THEN VNone
    ELSE
        LET hits == {i \in 1..Len(tilesets.items) :
                        /\ tilesets.items[i].t = "dict"
                        /\ DOMAIN tilesets.items[i].map # {}
                        /\ Get(tilesets.items[i], "id", VNone) = VInt(tileset_id)}
        IN  IF hits = {} THEN VNone
            ELSE tilesets.items[CHOOSE i \in hits : \A j \in hits : i <= j]

\* str(value or "").strip()
StrOrEmpty(value) == StripText(as_text(IF to_bool(value) THEN value ELSE VText(<<>>)))

\* get_tileset_names: the stored list if it is not empty, else the nine
\* slots made of the legacy fields.
get_tileset_names(tilesets, tileset_id) ==
    LET ts == get_tileset(tilesets, tileset_id) IN
    IF ts = VNone THEN VList(<<>>)
    ELSE
        LET names == Get(ts, "tilesetNames", VList(<<>>))
            tileset_name == StrOrEmpty(Get(ts, "tilesetName", VText(<<>>)))
            autotiles == Get(ts, "autotileNames", VList(<<>>))
            five == IF autotiles.t = "list"
                    THEN [i \in 1..(IF Len(autotiles.items) < 5 THEN Len(autotiles.items) ELSE 5)
                            |-> StrOrEmpty(autotiles.items[i])]
                    ELSE <<>>
        IN  IF names.t = "list" /\ names.items # <<>> THEN names
            ELSE IF autotiles.t = "list" \/ tileset_name # VText(<<>>)
            THEN VList(LegacySlots(five, tileset_name))
            ELSE VList(<<>>)

(***************************************************************************)
(* DataLoader                                                              *)
(***************************************************************************)
SENTINEL == [t |-> "SENTINEL"]

ExtJson == <<46, 106, 115, 111, 110>>
ExtRvdata2 == <<46, 114, 118, 100, 97, 116, 97, 50>>
ExtRvdata == <<46, 114, 118, 100, 97, 116, 97>>
DataPrefixUpper == <<68, 97, 116, 97, 92>>
DataPrefixLower == <<100, 97, 116, 97, 92>>

\* cache_key = filename.lower()
cache_key_NoLower(filename) == filename

cache_key(filename) == Lower(filename)

\* _load_mv_json: a missing file and a file json.load rejects are both None.
load_mv_json(d, filename) ==
    IF filename \notin DOMAIN d THEN VNone
    ELSE LET r == json_load(d[filename]) IN
         IF r.raised = "none" THEN r.value ELSE VNone

\* _vx_candidates
vx_candidates(filename) ==
    LET name == BaseName(filename)
        lower == Lower(name)
    IN  IF EndsWith(lower, ExtJson)
        THEN LET base == SubSeq(name, 1, Len(name) - 5) IN
             <<base \o ExtRvdata2, base \o ExtRvdata>>
        ELSE IF EndsWith(lower, ExtRvdata2) \/ EndsWith(lower, ExtRvdata)
        THEN <<name>>
        ELSE <<name \o ExtRvdata2, name \o ExtRvdata>>

NoSource == [type |-> "none", value |-> <<>>]

\* The first candidate that is a file of the data directory.
RECURSIVE FirstOnDisk(_, _)
FirstOnDisk(d, cands) ==
    IF cands = <<>> THEN NoSource
    ELSE IF Head(cands) \in DOMAIN d THEN [type |-> "disk", value |-> Head(cands)]
    ELSE FirstOnDisk(d, Tail(cands))

\* The entry names tried for one candidate, in the order they are tried.
ArchiveNames(candidate) ==
    <<DataPrefixUpper \o candidate, DataPrefixLower \o candidate, candidate>>

\* The first entry name the archive has.
RECURSIVE FirstInArchive(_, _)
FirstInArchive(ents, names) ==
    IF names = <<>> THEN NoSource
    ELSE IF has_entry(ents, Head(names)) THEN [type |-> "archive", value |-> Head(names)]
    ELSE FirstInArchive(ents, Tail(names))

\* _locate_vx_source: every candidate on disk first, then the archive.
locate_vx_source_ArchiveFirst(d, has_archive, ents, filename) ==
    LET cands == vx_candidates(filename)
        inArc == FirstInArchive(ents, Concat([i \in 1..Len(cands) |-> ArchiveNames(cands[i])]))
    IN  IF has_archive /\ inArc # NoSource THEN inArc ELSE FirstOnDisk(d, cands)

locate_vx_source(d, has_archive, ents, filename) ==
    LET cands == vx_candidates(filename)
        onDisk == FirstOnDisk(d, cands)
    IN  IF onDisk # NoSource THEN onDisk
        ELSE IF ~has_archive THEN NoSource
        ELSE FirstInArchive(ents, Concat([i \in 1..Len(cands) |-> ArchiveNames(cands[i])]))

\* What "except Exception" in _load_vx_data lets reach the caller: nothing.
Propagated(kind) == "none"

\* _load_vx_data: locate, read, deserialize, adapt; any exception is None.
adapted(filename, obj) ==
    IF obj.raised # "none" THEN VNone ELSE adapt(filename, obj.value)

deserialized(filename, raw) ==
    IF raw.kind # "ok" THEN VNone ELSE adapted(filename, marshal_loads(raw.data))

read_source(d, f, ents, filename, source) ==
    IF source = NoSource THEN VNone
    ELSE IF source.type = "disk"
    THEN deserialized(filename, [kind |-> "ok", data |-> d[source.value]])
    ELSE deserialized(filename, read_entry(f, ents, source.value))

load_vx_data(d, has_archive, f, ents, filename) ==
    read_source(d, f, ents, filename, locate_vx_source(d, has_archive, ents, filename))

\* The exception _load_vx_data leaves to its caller, "none" if none: the
\* failure of the read or of the deserializer, as the except clause passes it.
vx_failure(d, has_archive, f, ents, filename) ==
    LET source == locate_vx_source(d, has_archive, ents, filename)
        raw == IF source.type = "disk" THEN [kind |-> "ok", data |-> d[source.value]]
               ELSE read_entry(f, ents, source.value)
    IN  IF source = NoSource THEN "none"
        ELSE IF raw.kind # "ok" THEN Propagated(raw.kind)
        ELSE IF marshal_loads(raw.data).raised # "none"
             THEN Propagated(marshal_loads(raw.data).raised)
        ELSE "none"

\* exists
exists_DiskOnly(loader, d, ents, filename) ==
    IF loader.engine = "mv" THEN filename \in DOMAIN d
    ELSE FirstOnDisk(d, vx_candidates(filename)) # NoSource

exists(loader, d, ents, filename) ==
    IF loader.engine = "mv" THEN filename \in DOMAIN d
    ELSE locate_vx_source(d, loader.archive, ents, filename) # NoSource

\* An entry of the cache that is the sentinel whatever was loaded.
cached_Sentinel(value) == SENTINEL

\* The entry load_json stores for a value: the sentinel for None.
cached(value) == IF value = VNone THEN SENTINEL ELSE value

\* What load_json returns for an entry of the cache.
cache_value(entry) == IF entry = SENTINEL THEN VNone ELSE entry

\* load_json on a name that is not in the cache: the value is stored, the
\* sentinel for None.
loaded(loader, key, value, raised) ==
    [value |-> value,
     cache |-> Put(loader.cache, key, cached(value)),
     read |-> TRUE,
     raised |-> raised]

\* load_json: the value returned, the cache it leaves, and whether the file
\* or the archive was read.
load_json(loader, d, f, ents, filename) ==
    LET key == cache_key(filename) IN
    IF key \in DOMAIN loader.cache
    THEN [value |-> cache_value(loader.cache[key]),
          cache |-> loader.cache,
          read |-> FALSE,
          raised |-> "none"]
    ELSE loaded(loader, key,
                IF loader.engine = "mv" THEN load_mv_json(d, filename)
                ELSE load_vx_data(d, loader.archive, f, ents, filename),
                IF loader.engine = "mv" THEN "none"
                ELSE vx_failure(d, loader.archive, f, ents, filename))

(***************************************************************************)
(* The loader's state machine                                              *)
(***************************************************************************)
MaxDataEntries == 2

\* File names of an MV data directory whose names are case-sensitive.
JsonNames == {<<65, 46, 106, 115, 111, 110>>, <<97, 46, 106, 115, 111, 110>>, <<66, 46, 106, 115, 111, 110>>}

\* Documents: 1, 7, [], null, and one json.load rejects.
JsonDocs == {<<49>>, <<55>>, <<91, 93>>, <<110, 117, 108, 108>>, <<123>>}

\* Entry names of a data archive, and the on-disk siblings of MapInfos.
DataEntryNames ==
    <<<<68, 97, 116, 97, 92, 77, 97, 112, 73, 110, 102, 111, 115, 46, 114, 118, 100, 97, 116, 97, 50>>,
      <<100, 97, 116, 97, 92, 109, 97, 112, 105, 110, 102, 111, 115, 46, 114, 118, 100, 97, 116, 97, 50>>,
      <<77, 97, 112, 73, 110, 102, 111, 115, 46, 114, 118, 100, 97, 116, 97, 50>>,
      <<68, 97, 116, 97, 92, 77, 97, 112, 73, 110, 102, 111, 115, 46, 114, 118, 100, 97, 116, 97>>,
      <<68, 97, 116, 97, 92, 83, 121, 115, 116, 101, 109, 46, 114, 118, 100, 97, 116, 97, 50>>,
      <<68, 97, 116, 97, 92, 65, 99, 116, 111, 114, 115, 46, 114, 118, 100, 97, 116, 97, 50>>>>

RvdataNames == {<<77, 97, 112, 73, 110, 102, 111, 115, 46, 114, 118, 100, 97, 116, 97, 50>>, <<77, 97, 112, 73, 110, 102, 111, 115, 46, 114, 118, 100, 97, 116, 97>>}

VxLoadNames ==
    {<<77, 97, 112, 73, 110, 102, 111, 115, 46, 106, 115, 111, 110>>, <<109, 97, 112, 105, 110, 102, 111, 115, 46, 106, 115, 111, 110>>, <<83, 121, 115, 116, 101, 109, 46, 106, 115, 111, 110>>, <<65, 99, 116, 111, 114, 115, 46, 106, 115, 111, 110>>}

LoadNames(engine) == IF engine = "mv" THEN JsonNames ELSE VxLoadNames

\* Marshal documents: the hash {k => {}}, the empty array, nil, and a buffer
\* the deserializer rejects.
MarshalHash(k) == <<4, 8, 123, 6, 105, k + 5, 123, 0>>
MarshalEmptyArray == <<4, 8, 91, 0>>
MarshalNil == <<4, 8, 48>>
MarshalRejected == <<4, 8, 255>>

\* The payload of the i-th entry name: in a "hash" archive every entry holds
\* its own hash, so that the entry a load used shows in the result.
DataPayload(i, variant) ==
    CASE variant = "hash" -> MarshalHash(i)
      [] variant = "empty" -> MarshalEmptyArray
      [] variant = "nil" -> MarshalNil
      [] OTHER -> MarshalRejected

RECURSIVE SeqOfSet(_)
SeqOfSet(S) ==
    IF S = {} THEN <<>>
    ELSE LET m == CHOOSE x \in S : \A y \in S : x <= y IN <<m>> \o SeqOfSet(S \ {m})

\* Up to MaxDataEntries entries whose canonical names differ.
DataEntrySets ==
    {S \in SUBSET (1..Len(DataEntryNames)) :
        /\ S # {}
        /\ Cardinality(S) <= MaxDataEntries
        /\ \A i, j \in S : i # j => canonical(DataEntryNames[i]) # canonical(DataEntryNames[j])}

DataEntries(S, variant) ==
    LET ix == SeqOfSet(S) IN
    [n \in 1..Len(ix) |->
        [name |-> DataEntryNames[ix[n]],
         payload |-> DataPayload(ix[n], variant),
         data_key |-> <<120, 86, 52, 18>>]]

NoLoader == [state |-> "none", engine |-> "mv", archive |-> FALSE, cache |-> EmptyMap]

NoLoad == [op |-> "none", filename |-> <<>>, value |-> VNone, found |-> FALSE,
           read |-> FALSE, source |-> NoSource, later |-> FALSE, first |-> VNone,
           raised |-> "none"]

DlInit ==
    /\ disk = EmptyMap
    /\ dl = NoLoader
    /\ firsts = {}
    /\ lastLoad = NoLoad

\* A JSON file of the data directory is written or rewritten, at any time.
WriteJsonFile ==
    /\ \E name \in JsonNames, doc \in JsonDocs :
        /\ (name \in DOMAIN disk) => disk[name] # doc
        /\ disk' = Put(disk, name, doc)
    /\ UNCHANGED <<dl, firsts, lastLoad, arcVars>>

\* A JSON file of the data directory is deleted, at any time.
DeleteJsonFile ==
    /\ \E name \in DOMAIN disk :
        disk' = [k \in DOMAIN disk \ {name} |-> disk[k]]
    /\ UNCHANGED <<dl, firsts, lastLoad, arcVars>>

\* An .rvdata2 or .rvdata file is put in the data directory of a VX project.
WriteRvdataFile ==
    /\ dl.state = "none"
    /\ \E name \in RvdataNames :
        /\ name \notin DOMAIN disk
        /\ disk' = Put(disk, name, MarshalHash(IF name = <<77, 97, 112, 73, 110, 102, 111, 115, 46, 114, 118, 100, 97, 116, 97, 50>> THEN 7 ELSE 8))
    /\ UNCHANGED <<dl, firsts, lastLoad, arcVars>>

\* The project's version-3 data archive is written, with the seed 3580.
BuildDataArchive ==
    /\ arc.state = "nofile"
    /\ dl.state = "none"
    /\ \E S \in DataEntrySets, variant \in {"hash", "empty", "nil", "rejected"} :
        /\ built' = DataEntries(S, variant)
        /\ file' = build_rgss3a(<<252, 13, 0, 0>>, built')
    /\ arc' = [arc EXCEPT !.state = "closed"]
    /\ UNCHANGED <<cut, lastRead, dlVars>>

\* DataLoader(data_dir, "mv")
NewMvLoader ==
    /\ dl.state = "none"
    /\ dl' = [state |-> "ready", engine |-> "mv", archive |-> FALSE, cache |-> EmptyMap]
    /\ firsts' = {}
    /\ UNCHANGED <<disk, lastLoad, arcVars>>

\* DataLoader(data_dir, "vxace"): no archive_path, no archive.
NewVxLoader ==
    /\ dl.state = "none"
    /\ dl' = [state |-> "ready", engine |-> "vxace", archive |-> FALSE, cache |-> EmptyMap]
    /\ firsts' = {}
    /\ UNCHANGED <<disk, lastLoad, arcVars>>

\* DataLoader(data_dir, "vxace", archive_path): RgssArchive(archive) is opened
\* in __init__, and its raise leaves no loader.
NewVxArchiveLoader ==
    /\ dl.state = "none"
    /\ arc.state = "closed"
    /\ LET r == parse_index(file) IN
        /\ arc' = [state |-> IF r.raised = "none" THEN "open" ELSE "invalid",
                   version |-> r.version,
                   entries |-> r.entries]
        /\ dl' = IF r.raised = "none"
                 THEN [state |-> "ready", engine |-> "vxace", archive |-> TRUE,
                       cache |-> EmptyMap]
                 ELSE dl
    /\ firsts' = {}
    /\ UNCHANGED <<disk, lastLoad, built, file, cut, lastRead>>

\* Two file names are equal ignoring the case of their letters.
CaseEq(a, b) ==
    /\ Len(a) = Len(b)
    /\ \A i \in 1..Len(a) : LowerChar(a[i]) = LowerChar(b[i])

\* load_json(filename)
LoadReturns(filename, r, earlier) ==
        /\ dl' = [dl EXCEPT !.cache = r.cache]
        /\ firsts' = IF earlier = {} THEN firsts \cup {[name |-> filename, value |-> r.value]}
                     ELSE firsts
        /\ lastLoad' = [op |-> "load_json", filename |-> filename, value |-> r.value,
                        found |-> FALSE, read |-> r.read, raised |-> r.raised,
                        source |-> IF r.read /\ dl.engine # "mv"
                                   THEN locate_vx_source(disk, dl.archive, arc.entries, filename)
                                   ELSE NoSource,
                        later |-> earlier # {},
                        first |-> IF earlier = {} THEN VNone
                                  ELSE (CHOOSE x \in earlier : TRUE).value]

Load ==
    /\ dl.state = "ready"
    /\ \E filename \in LoadNames(dl.engine) :
        LoadReturns(filename, load_json(dl, disk, file, arc.entries, filename),
                    {x \in firsts : CaseEq(x.name, filename)})
    /\ UNCHANGED <<disk, arcVars>>

\* exists(filename)
Exists ==
    /\ dl.state = "ready"
    /\ \E filename \in LoadNames(dl.engine) :
        lastLoad' = [op |-> "exists", filename |-> filename, value |-> VNone,
                     found |-> exists(dl, disk, arc.entries, filename), read |-> FALSE,
                     raised |-> "none",
                     source |-> IF dl.engine # "mv"
                                THEN locate_vx_source(disk, dl.archive, arc.entries, filename)
                                ELSE NoSource,
                     later |-> FALSE, first |-> VNone]
    /\ UNCHANGED <<disk, dl, firsts, arcVars>>

\* The data archive loses its last byte, the end of its last payload, before
\* the loader opens it.
TruncateDataArchive ==
    /\ arc.state = "closed"
    /\ dl.state = "none"
    /\ cut = 0
    /\ cut' = 1
    /\ file' = SubSeq(file, 1, Len(file) - 1)
    /\ UNCHANGED <<built, arc, lastRead, dlVars>>

MvNext == WriteJsonFile \/ DeleteJsonFile \/ NewMvLoader \/ Load \/ Exists

VxNext ==
    \/ WriteRvdataFile
    \/ BuildDataArchive
    \/ NewVxLoader
    \/ NewVxArchiveLoader
    \/ Load
    \/ Exists

(***************************************************************************)
(* Claims about the loader                                                 *)
(***************************************************************************)
\* C8: within one session, once a first load of a file name has returned (a
\* value, or absent), every later load of a name equal to it ignoring case
\* returns that same result and reads nothing, whatever was written to or
\* deleted from the data directory in between.
C8_LaterLoadsRepeatFirst ==
    (lastLoad.op = "load_json" /\ lastLoad.later) =>
        /\ lastLoad.value = lastLoad.first
        /\ ~lastLoad.read

\* A later load under another case of the name, after the file of that very
\* name has come to hold something the first load did not return.
C8_Witness ==
    /\ lastLoad.op = "load_json"
    /\ lastLoad.later
    /\ dl.engine = "mv"
    /\ \E x \in firsts : CaseEq(x.name, lastLoad.filename) /\ x.name # lastLoad.filename
    /\ load_mv_json(disk, lastLoad.filename) # lastLoad.value
    /\ lastLoad.value # VNone

\* X of the logical name X.json.
BaseOf(filename) == SubSeq(filename, 1, Len(filename) - Len(ExtJson))

OnDisk(name) == [type |-> "disk", value |-> name]
InArchive(name) == [type |-> "archive", value |-> name]

\* A place holds a source: the file is in the data directory, or an archive
\* was supplied and has an entry of that name up to case and separator.
Holds(place) ==
    IF place.type = "disk" THEN place.value \in DOMAIN disk
    ELSE dl.archive /\ \E key \in DOMAIN arc.entries : SameModuloCaseSep(key, place.value)

\* The first place of a list that holds a source, or none.
FirstHolding(places) ==
    IF \A i \in 1..Len(places) : ~Holds(places[i]) THEN NoSource
    ELSE places[CHOOSE i \in 1..Len(places) :
                    Holds(places[i]) /\ \A j \in 1..(i - 1) : ~Holds(places[j])]

\* Disk X.rvdata2, disk X.rvdata, then the archive under the prefixed names only.
PlacesPrefixedOnly(X) ==
    <<OnDisk(X \o ExtRvdata2), OnDisk(X \o ExtRvdata),
      InArchive(DataPrefixUpper \o X \o ExtRvdata2), InArchive(DataPrefixLower \o X \o ExtRvdata2),
      InArchive(DataPrefixUpper \o X \o ExtRvdata), InArchive(DataPrefixLower \o X \o ExtRvdata)>>

\* The same, with the unprefixed name as the third archive name of each suffix.
PlacesWithBareName(X) ==
    <<OnDisk(X \o ExtRvdata2), OnDisk(X \o ExtRvdata),
      InArchive(DataPrefixUpper \o X \o ExtRvdata2), InArchive(DataPrefixLower \o X \o ExtRvdata2),
      InArchive(X \o ExtRvdata2),
      InArchive(DataPrefixUpper \o X \o ExtRvdata), InArchive(DataPrefixLower \o X \o ExtRvdata),
      InArchive(X \o ExtRvdata)>>

\* A call of a VX loader that located the source of X.json.
LocatedCall ==
    /\ dl.engine # "mv"
    /\ \/ lastLoad.op = "exists"
       \/ lastLoad.op = "load_json" /\ lastLoad.read

SourceIs(expected) ==
    /\ lastLoad.source = expected
    /\ (expected = NoSource /\ lastLoad.op = "load_json") => lastLoad.value = VNone
    /\ lastLoad.op = "exists" => (lastLoad.found <=> expected # NoSource)

\* C9 as stated: the source of X.json is the first of disk X.rvdata2, disk
\* X.rvdata and the archive's Data\-prefixed entry in its two case variants,
\* and a name at none of these is absent.
C9_SourceOrderPrefixedOnly ==
    LocatedCall => SourceIs(FirstHolding(PlacesPrefixedOnly(BaseOf(lastLoad.filename))))

\* C9: the source of X.json is the first of disk X.rvdata2, disk X.rvdata and,
\* if an archive was supplied, its entries Data\X.rvdata2, data\X.rvdata2,
\* X.rvdata2, Data\X.rvdata, data\X.rvdata, X.rvdata; a disk file wins over
\* every archive entry, and a name at none of these places is absent.
C9_SourceOrderWithBareName ==
    LocatedCall => SourceIs(FirstHolding(PlacesWithBareName(BaseOf(lastLoad.filename))))

\* The disk's MapInfos.rvdata was used although the archive supplied holds
\* Data\MapInfos.rvdata2.
C9_Witness ==
    /\ LocatedCall
    /\ lastLoad.op = "load_json"
    /\ lastLoad.source = OnDisk(<<77, 97, 112, 73, 110, 102, 111, 115, 46, 114, 118, 100, 97, 116, 97>>)
    /\ dl.archive
    /\ Holds(InArchive(<<68, 97, 116, 97, 92, 77, 97, 112, 73, 110, 102, 111, 115, 46, 114, 118, 100, 97, 116, 97, 50>>))
    /\ lastLoad.value # VNone

\* The archive supplied is of version 3 and holds Data\X.rvdata2, and the data
\* directory has no sibling file of X under any case of its name.
ArchiveOnlyCase ==
    /\ lastLoad.op # "none"
    /\ dl.engine # "mv"
    /\ dl.archive
    /\ arc.version = 3
    /\ Holds(InArchive(DataPrefixUpper \o BaseOf(lastLoad.filename) \o ExtRvdata2))
    /\ \A n \in DOMAIN disk :
        /\ ~CaseEq(n, BaseOf(lastLoad.filename) \o ExtRvdata2)
        /\ ~CaseEq(n, BaseOf(lastLoad.filename) \o ExtRvdata)

\* What was written as the payload of the entry Data\X.rvdata2, deserialized.
WrittenObject ==
    LET X == BaseOf(lastLoad.filename)
        i == CHOOSE k \in 1..Len(built) :
                SameModuloCaseSep(built[k].name, DataPrefixUpper \o X \o ExtRvdata2)
    IN  marshal_loads(built[i].payload)

\* exists is true, and load returns the conversion of the written object.
ArchiveOnlyLoad ==
    /\ lastLoad.op = "exists" => lastLoad.found
    /\ (lastLoad.op = "load_json" /\ WrittenObject.raised = "none") =>
            lastLoad.value = adapt(lastLoad.filename, WrittenObject.value)

\* C10 as stated: in that case exists("X.json") is true and load("X.json") is
\* the adapter's conversion of the entry's payload, an empty array whenever
\* the payload deserializes to an empty array.
C10_EmptyArrayForEveryName ==
    ArchiveOnlyCase =>
        /\ ArchiveOnlyLoad
        /\ (lastLoad.op = "load_json" /\ WrittenObject.raised = "none"
                /\ WrittenObject.value = VList(<<>>)) =>
            lastLoad.value = VList(<<>>)

\* C10: in that case exists("X.json") is true and load("X.json") is the
\* adapter's conversion of the entry's payload; for a payload that deserializes
\* to an empty array that is an empty array, except for System, whose
\* conversion of anything that is not a mapping is an empty mapping.
C10_EmptyArrayUnlessSystem ==
    ArchiveOnlyCase =>
        /\ ArchiveOnlyLoad
        /\ (lastLoad.op = "load_json" /\ WrittenObject.raised = "none"
                /\ WrittenObject.value = VList(<<>>)) =>
            lastLoad.value = IF Lower(BaseOf(lastLoad.filename)) = StemSystem
                             THEN VDict(EmptyMap) ELSE VList(<<>>)

\* The archive with the single entry Data\MapInfos.rvdata2 holding an empty
\* array: MapInfos.json is read from it as an empty array.
C10_Witness ==
    /\ ArchiveOnlyCase
    /\ lastLoad.op = "load_json"
    /\ lastLoad.read
    /\ lastLoad.filename = <<77, 97, 112, 73, 110, 102, 111, 115, 46, 106, 115, 111, 110>>
    /\ Len(built) = 1
    /\ built[1].name = <<68, 97, 116, 97, 92, 77, 97, 112, 73, 110, 102, 111, 115, 46, 114, 118, 100, 97, 116, 97, 50>>
    /\ built[1].payload = MarshalEmptyArray
    /\ lastLoad.source = InArchive(<<68, 97, 116, 97, 92, 77, 97, 112, 73, 110, 102, 111, 115, 46, 114, 118, 100, 97, 116, 97, 50>>)
    /\ lastLoad.value = VList(<<>>)

\* The located source of the last load could not be read or deserialized:
\* an archive entry whose payload is cut short, or a buffer the deserializer
\* rejects.
SourceUnusable ==
    /\ lastLoad.op = "load_json"
    /\ lastLoad.read
    /\ lastLoad.source # NoSource
    /\ LET raw == IF lastLoad.source.type = "disk"
                  THEN [kind |-> "ok", data |-> disk[lastLoad.source.value]]
                  ELSE read_entry(file, arc.entries, lastLoad.source.value)
       IN  raw.kind # "ok" \/ marshal_loads(raw.data).raised # "none"

\* C11: when the located source of a VX data file cannot be read or
\* deserialized as a whole, load_json fails towards its caller and does not
\* report the file as absent.
C11_UnusableSourceRaises ==
    SourceUnusable => lastLoad.raised # "none"

\* The file was located in the archive, its payload is cut short, and the
\* load reported it as absent.
C11_Reached ==
    /\ SourceUnusable
    /\ lastLoad.source.type = "archive"
    /\ cut = 1
    /\ read_entry(file, arc.entries, lastLoad.source.value).kind = "GameDataInvalidError"
    /\ lastLoad.value = VNone

(***************************************************************************)
(* The adapter's state machine: single calls of VXDataAdapter.adapt        *)
(***************************************************************************)
MaxMapKey == 5

\* Values of a mapping from ids: two records (a mapping without attributes,
\* an object whose @id is not its key) and two values that are no records.
RecordValues ==
    {VDict(EmptyMap),
     VObj([k \in {VStr("<<105, 100, 34, 41, 44, 32, 86, 83, 116, 114, 40, 34>>name"), VStr("@pages")} |->
            CASE k = VStr("@id") -> VInt(9)
              [] k = VStr("@name") -> VText(<<69, 86>>)
              [] OTHER -> VList(<<VNone, VDict(EmptyMap)>>)])}

NonRecordValues == {VInt(7), VNone}

\* The mappings from some of the ids 1..MaxMapKey.
SparseMappings ==
    UNION {[K -> RecordValues \cup NonRecordValues] :
            K \in SUBSET {VInt(i) : i \in 1..MaxMapKey}}

NoAdapt == [op |-> "none", name |-> <<>>, input |-> VNone, output |-> VNone]

AdInit == ad = NoAdapt

\* adapt("Map001.json", map) on a map object whose @events is the mapping.
AdaptMap ==
    /\ ad.op = "none"
    /\ \E m \in SparseMappings :
        ad' = [op |-> "map", name |-> <<77, 97, 112, 48, 48, 49, 46, 106, 115, 111, 110>>, input |-> VDict(m),
               output |-> adapt(<<77, 97, 112, 48, 48, 49, 46, 106, 115, 111, 110>>,
                                VObj([k \in {VStr("@events")} |-> VDict(m)]))]

\* adapt("MapInfos.json", mapping)
AdaptMapInfos ==
    /\ ad.op = "none"
    /\ \E m \in SparseMappings :
        ad' = [op |-> "mapinfos", name |-> <<77, 97, 112, 73, 110, 102, 111, 115, 46, 106, 115, 111, 110>>, input |-> VDict(m),
               output |-> adapt(<<77, 97, 112, 73, 110, 102, 111, 115, 46, 106, 115, 111, 110>>, VDict(m))]

MaxAutotiles == 6

\* The logical name of the tileset table.
TilesetsJson == <<84, 105, 108, 101, 115, 101, 116, 115, 46, 106, 115, 111, 110>>

\* An attribute a record does not have.
Absent == [t |-> "absent"]

\* The object, or the mapping, with the attributes of the pairs that are there.
RecordOf(kind, pairs) ==
    LET there == {i \in DOMAIN pairs : pairs[i][2] # Absent}
        map == [k \in {VStr(pairs[i][1]) : i \in there} |->
                    pairs[CHOOSE i \in there : VStr(pairs[i][1]) = k][2]]
    IN  IF kind = "object" THEN VObj(map) ELSE VDict(map)

\* Autotile names A1, A2, ...: as they are, the first one padded with blanks,
\* or the second one None.
AutotileName(i, variant) ==
    IF variant = "padded" /\ i = 1 THEN VText(<<32, 65, 49, 32>>)
    ELSE IF variant = "none" /\ i = 2 THEN VNone
    ELSE VText(<<65, 48 + i>>)

AutotileLists ==
    {Absent} \cup
    {VList([i \in 1..k |-> AutotileName(i, variant)]) :
        k \in 0..MaxAutotiles, variant \in {"plain", "padded", "none"}}

\* Main tileset names: none, "Main", " M " and a blank one.
MainNames == {Absent, VText(<<77, 97, 105, 110>>), VText(<<32, 77, 32>>), VText(<<32, 32>>)}

\* The modern name list: none, empty, or 3, 9, 10 names T1, T2, ...
GivenNameLists ==
    {Absent} \cup {VList([i \in 1..n |-> VText(<<84, 48 + (i % 10)>>)]) : n \in {0, 3, 9, 10}}

\* adapt("Tilesets.json", [None, record])
AdaptTilesets ==
    /\ ad.op = "none"
    /\ \E auto \in AutotileLists, main \in MainNames, given \in GivenNameLists,
          kind \in {"object", "dict"} :
        LET raw == VList(<<VNone,
                           RecordOf(kind, <<
                             <<"@id", VInt(1)>>,
                             <<"@name", VText(<<76, 101, 103, 97, 99, 121, 86, 88>>)>>,
                             <<"@tileset_names", given>>,
                             <<"@autotile_names", auto>>,
                             <<"@tileset_name", main>> >>)>>)
        IN  ad' = [op |-> "tilesets", name |-> TilesetsJson, input |-> raw,
                   output |-> adapt(TilesetsJson, raw),
                   auto |-> auto, main |-> main, given |-> given]

\* get_tileset_names(1) on a table whose record 1 stores the legacy fields only.
DbTilesetNames ==
    /\ ad.op = "none"
    /\ \E auto \in AutotileLists, main \in MainNames :
        LET table == VList(<<VNone,
                             RecordOf("dict", <<
                               <<"id", VInt(1)>>,
                               <<"autotileNames", auto>>,
                               <<"tilesetName", main>> >>)>>)
        IN  ad' = [op |-> "get_tileset_names", name |-> TilesetsJson, input |-> table,
                   output |-> get_tileset_names(table, 1),
                   auto |-> auto, main |-> main, given |-> Absent]

MaxTableLen == 3

\* Elements of a table: None, two values that are no records, a mapping
\* without attributes, and an object whose lists hold what is no record.
TableRecord ==
    VObj([k \in {VStr("@id"), VStr("@name"), VStr("@members"), VStr("@features"),
                 VStr("@list"), VStr("@params")} |->
        CASE k = VStr("@id") -> VInt(9)
          [] k = VStr("@name") -> VText(<<69, 86>>)
          [] k = VStr("@members") ->
                VList(<<VInt(7), VDict([a \in {VStr("@enemy_id")} |-> VInt(4)]), VNone>>)
          [] k = VStr("@params") -> VList(<<VInt(30), VNone, VInt(5)>>)
          [] k = VStr("@features") ->
                VList(<<VNone, VDict([a \in {VStr("@code")} |-> VInt(11)])>>)
          [] OTHER ->
                VList(<<VInt(7), VDict([a \in {VStr("@code")} |-> VInt(101)])>>)])

TableElements == {VNone, VInt(7), VText(<<120>>), VDict(EmptyMap), TableRecord}

Tables == UNION {[1..n -> TableElements] : n \in 0..MaxTableLen}

WeaponsJson == <<87, 101, 97, 112, 111, 110, 115, 46, 114, 118, 100, 97, 116, 97, 50>>

ArmorsJson == <<65, 114, 109, 111, 114, 115, 46, 106, 115, 111, 110>>

TableNames == {WeaponsJson, ArmorsJson, <<67, 111, 109, 109, 111, 110, 69, 118, 101, 110, 116, 115, 46, 106, 115, 111, 110>>, <<84, 114, 111, 111, 112, 115, 46, 106, 115, 111, 110>>, <<83, 116, 97, 116, 101, 115, 46, 106, 115, 111, 110>>, TilesetsJson}

\* adapt(name, table) for a table converter.
AdaptTable ==
    /\ ad.op = "none"
    /\ \E name \in TableNames, tb \in Tables :
        ad' = [op |-> "table", name |-> name, input |-> VList(tb),
               output |-> adapt(name, VList(tb))]

AdNext == AdaptMap \/ AdaptMapInfos \/ AdaptTilesets \/ DbTilesetNames \/ AdaptTable

(***************************************************************************)
(* Claims about the adapter                                                *)
(***************************************************************************)
\* The ids of a mapping, and the dense list made of it.
KeysOf(mapping) == {k.v : k \in DOMAIN mapping.map}

DenseListOf(call) ==
    IF call.op = "map" THEN call.output.map[VStr("events")] ELSE call.output

\* C12: converting a sparse mapping from positive ids to objects (map events,
\* map infos) yields a dense list of length max(key)+1 in which slot i holds a
\* record exactly when i is a key, that record's id is i, and every other slot,
\* slot 0 included, is None.
C12_SparseToDense ==
    (/\ ad.op \in {"map", "mapinfos"}
     /\ KeysOf(ad.input) # {}
     /\ \A k \in DOMAIN ad.input.map : IsRecord(ad.input.map[k])) =>
        LET out == DenseListOf(ad)
            top == CHOOSE n \in KeysOf(ad.input) : \A j \in KeysOf(ad.input) : j <= n
        IN  /\ out.t = "list"
            /\ Len(out.items) = top + 1
            /\ \A i \in 0..top :
                IF i \in KeysOf(ad.input)
                THEN /\ out.items[i + 1].t = "dict"
                     /\ out.items[i + 1].map[VStr("id")] = VInt(i)
                ELSE out.items[i + 1] = VNone

\* The events {5: an object, 2: a mapping}: six slots, 2 and 5 populated.
C12_Witness ==
    /\ ad.op = "map"
    /\ KeysOf(ad.input) = {2, 5}
    /\ ad.input.map[VInt(5)].t = "object"
    /\ ad.input.map[VInt(2)].t = "dict"
    /\ Len(DenseListOf(ad).items) = 6
    /\ DenseListOf(ad).items[3] # VNone
    /\ DenseListOf(ad).items[6].map[VStr("id")] = VInt(5)
    /\ \A i \in {1, 2, 4, 5} : DenseListOf(ad).items[i] = VNone

\* A name without its blanks; None is the empty name.
NotBlank(c) == c # 32
Bare(name) == IF name \in {VNone, Absent} THEN <<>> ELSE SelectSeq(name.cp, NotBlank)

\* The name list the last call produced for record 1.
NamesOut ==
    IF ad.op = "tilesets" THEN ad.output.items[2].map[VStr("tilesetNames")].items
    ELSE ad.output.items

\* C13: the tile-image name list of a tileset record has exactly 9 slots; of a
\* record with only the legacy fields (k autotile names, a main name) the first
\* min(k,5) autotile names are at slots 0..min(k,5)-1, the main name at slot 5
\* and every other slot is the empty string; get_tileset_names maps the stored
\* legacy fields the same way.
C13_NineSlotsLegacyMapping ==
    /\ ad.op = "tilesets" => Len(NamesOut) = 9
    /\ (/\ ad.op \in {"tilesets", "get_tileset_names"}
        /\ ad.given = Absent) =>
            LET k == IF ad.auto = Absent THEN 0 ELSE Len(ad.auto.items)
                n == IF k < 5 THEN k ELSE 5
            IN  /\ Len(NamesOut) = 9
                /\ \A i \in 0..8 :
                    NamesOut[i + 1].cp =
                        IF i < n THEN Bare(ad.auto.items[i + 1])
                        ELSE IF i = 5 THEN Bare(ad.main)
                        ELSE <<>>

\* The legacy record of the test: three autotile names and a main name.
C13_Witness ==
    /\ ad.op = "tilesets"
    /\ ad.given = Absent
    /\ ad.auto # Absent
    /\ Len(ad.auto.items) = 3
    /\ ad.main = VText(<<77, 97, 105, 110>>)
    /\ NamesOut[1] = VText(<<65, 49>>)
    /\ NamesOut[3] = VText(<<65, 51>>)
    /\ NamesOut[4] = VText(<<>>)
    /\ NamesOut[6] = VText(<<77, 97, 105, 110>>)
    /\ Len(NamesOut) = 9

\* The slot of id i in a dense list, None if the list ends before it.
SlotOf(list, i) == IF i + 1 <= Len(list.items) THEN list.items[i + 1] ELSE VNone

Alone(items, i) == [j \in 1..Len(items) |-> IF j = i THEN items[j] ELSE VNone]

\* The value a missing attribute defaults to: 0, "" or [], but 9 empty names
\* for the tile images, 8 zeros for the parameters and the equipment slot 1
\* of a weapon, 2 of an armor.
DefaultOf(name, field) ==
    CASE field = VStr("tilesetNames") -> {VList([i \in 1..9 |-> VText(<<>>)])}
      [] field = VStr("params") -> {VList([i \in 1..8 |-> VInt(0)])}
      [] field = VStr("etypeId") -> {VInt(IF name = WeaponsJson THEN 1 ELSE 2)}
      [] OTHER -> {VInt(0), VText(<<>>), VList(<<>>)}

Truthy(value) ==
    CASE value.t = "none" -> FALSE
      [] value.t = "bool" -> value.b
      [] value.t = "int" -> value.v # 0
      [] value.t = "list" -> value.items # <<>>
      [] value.t \in {"dict", "object"} -> DOMAIN value.map # {}
      [] "cp" \in DOMAIN value -> value.cp # <<>>
      [] OTHER -> TRUE

\* value == 0 of Python (False == 0 holds)
EqZero(value) == value = VInt(0) \/ value = VBool(FALSE)

\* a or b of Python
Or(a, b) == IF Truthy(a) THEN a ELSE b

\* f"{value}": the characters of str(value)
Fmt(value) ==
    CASE value.t = "none" -> <<78, 111, 110, 101>>
      [] value.t = "int" -> Digits(value.v)
      [] value.t = "bool" -> IF value.b THEN <<84, 114, 117, 101>> ELSE <<70, 97, 108, 115, 101>>
      [] "cp" \in DOMAIN value -> value.cp
      [] OTHER -> <<63>>

\* isinstance(value, dict)
IsDict(value) == value.t = "dict"

\* The elements of a sequence a test selects, in order.
SelectSeqOf(items, Test(_)) ==
    LET upto[i \in 0..Len(items)] ==
            IF i = 0 THEN <<>>
            ELSE IF Test(items[i]) THEN Append(upto[i - 1], items[i])
            ELSE upto[i - 1]
    IN  upto[Len(items)]

\* build_name_map: id -> stripped name, or fallback#id for an empty name;
\* a later item of the same id replaces an earlier one.
build_name_map(json_data, fallback) ==
    LET items == IF json_data.t = "list"
                 THEN SelectSeqOf(json_data.items,
                        LAMBDA it : IsDict(it) /\ Get(it, "id", VNone) # VNone)
                 ELSE <<>>
        ids == {Get(items[i], "id", VNone) : i \in DOMAIN items}
        lastAt(id) == CHOOSE i \in DOMAIN items :
                        /\ Get(items[i], "id", VNone) = id
                        /\ \A j \in DOMAIN items : Get(items[j], "id", VNone) = id => j <= i
        name(id) == StripText(Get(items[lastAt(id)], "name", VText(<<>>))).cp
    IN  [id \in ids |-> IF name(id) # <<>> THEN name(id) ELSE fallback \o <<35>> \o Fmt(id)]

\* The database of the interpreter: one troop of three members (two of one
\* enemy, one of them hidden, and an empty place), one item, one map.
DbTroop ==
    DictOf(<< <<"id", VInt(1)>>, <<"name", VText(<<66, 97, 116, 115>>)>>,
              <<"members", VList(<<
                  DictOf(<< <<"enemyId", VInt(2)>>, <<"hidden", VBool(FALSE)>> >>),
                  DictOf(<< <<"enemyId", VInt(2)>>, <<"hidden", VBool(TRUE)>> >>),
                  DictOf(<< <<"enemyId", VInt(0)>> >>) >>)>> >>)

\* DatabaseManager.__init__
Db ==
    LET raw_items == VList(<<VNone, DictOf(<< <<"id", VInt(1)>>, <<"name", VText(<<80, 111, 116, 105, 111, 110>>)>> >>)>>)
        raw_troops == VList(<<VNone, DbTroop>>)
        raw_enemies == VList(<<>>)
    IN  [raw_troops |-> raw_troops,
         items |-> build_name_map(raw_items, <<26410, 30693, 29289, 21697>>),
         weapons |-> build_name_map(VList(<<>>), <<26410, 30693, 27494, 22120>>),
         armors |-> build_name_map(VList(<<>>), <<26410, 30693, 38450, 20855>>),
         enemies |-> build_name_map(raw_enemies, <<26410, 30693, 25932, 20154>>),
         troops |-> build_name_map(raw_troops, <<25932, 32676>>),
         switches |-> << >>,
         variables |-> << >>,
         map_infos |-> VList(<<VNone, DictOf(<< <<"id", VInt(1)>>, <<"name", VText(<<84, 111, 119, 110>>)>> >>)>>)]

\* mapping.get(key, fallback#key)
NameOf(mapping, key, fallback) ==
    IF key \in DOMAIN mapping THEN mapping[key] ELSE fallback \o <<35>> \o Fmt(key)

get_item_name(item_id) == NameOf(Db.items, item_id, <<26410, 30693, 29289, 21697>>)

get_weapon_name(weapon_id) == NameOf(Db.weapons, weapon_id, <<26410, 30693, 27494, 22120>>)

get_armor_name(armor_id) == NameOf(Db.armors, armor_id, <<26410, 30693, 38450, 20855>>)

get_enemy_name(enemy_id) == NameOf(Db.enemies, enemy_id, <<25932, 20154>>)

get_switch_name(switch_id) == NameOf(Db.switches, switch_id, <<24320, 20851>>)

get_variable_name(var_id) == NameOf(Db.variables, var_id, <<21464, 37327>>)

get_troop_name(troop_id) == NameOf(Db.troops, troop_id, <<25932, 32676>>)

\* The first item of a list that a test selects, None if there is none.
FirstOf(list, Test(_)) ==
    LET found == IF list.t = "list" THEN SelectSeqOf(list.items, Test) ELSE <<>>
    IN  IF found = <<>> THEN VNone ELSE Head(found)

\* DatabaseManager.get_map_name
get_map_name(map_id) ==
    LET info == FirstOf(Db.map_infos,
                    LAMBDA it : IsDict(it) /\ Truthy(it) /\ Get(it, "id", VNone) = map_id)
    IN  IF info = VNone THEN <<22320, 22270, 35>> \o Fmt(map_id)
        ELSE Fmt(Get(info, "name", VText(<<22320, 22270, 35>> \o Fmt(map_id))))

\* DatabaseManager.get_troop
get_troop(troop_id) ==
    FirstOf(Db.raw_troops,
        LAMBDA it : IsDict(it) /\ Truthy(it) /\ Get(it, "id", VNone) = troop_id)

\* EventInterpreter.__init__: no map context.
NoContext ==
    [current_map_id |-> VNone, current_map_name |-> VNone,
     current_encounters |-> VNone, current_encounter_step |-> VNone]

\* p[i] if len(p) > i else default
Param(p, i, default) ==
    IF p.t = "list" /\ Len(p.items) > i THEN p.items[i + 1] ELSE default

\* The numbers of a set of integer values in ascending order.
RECURSIVE SortedIds(_)
SortedIds(ids) ==
    IF ids = {} THEN <<>>
    ELSE LET least == CHOOSE a \in ids : \A b \in ids : a.v <= b.v
         IN  <<least>> \o SortedIds(ids \ {least})

\* The members of a troop, those without an enemy too.
troop_members_All(troop) ==
    IF Truthy(troop) /\ IsDict(troop)
    THEN SelectSeqOf(Or(Get(troop, "members", VNone), VList(<<>>)).items, IsDict)
    ELSE <<>>

\* The members of a troop that name an enemy.
troop_members(troop) ==
    IF Truthy(troop) /\ IsDict(troop)
    THEN SelectSeqOf(Or(Get(troop, "members", VNone), VList(<<>>)).items,
            LAMBDA mb : IsDict(mb) /\ Truthy(Get(mb, "enemyId", VInt(0))))
    ELSE <<>>

\* An enemy of a troop with how often it is a member, and how often hidden.
troop_enemy(members, eid) ==
    DictOf(<< <<"id", eid>>,
              <<"name", VText(get_enemy_name(eid))>>,
              <<"count", VInt(Cardinality({i \in DOMAIN members :
                            Get(members[i], "enemyId", VInt(0)) = eid}))>>,
              <<"hidden", VInt(Cardinality({i \in DOMAIN members :
                            /\ Get(members[i], "enemyId", VInt(0)) = eid
                            /\ Truthy(Get(members[i], "hidden", VNone))}))>> >>)

\* The enemies of a troop sorted by id.
troop_enemies(members, eids) ==
    VList([i \in DOMAIN eids |-> troop_enemy(members, eids[i])])

\* The ids of the enemies of the members, in ascending order.
enemy_ids(members) ==
    SortedIds({Get(members[i], "enemyId", VInt(0)) : i \in DOMAIN members})

\* The enemy list of _make_troop_ref: the enemies of the members of a troop.
count_enemies(troop) ==
    troop_enemies(troop_members(troop), enemy_ids(troop_members(troop)))

\* _make_troop_ref
make_troop_ref(troop_id, method, can_escape, can_lose) ==
    IF ~Truthy(troop_id) THEN VNone
    ELSE DictOf(<<
          <<"kind", VText(<<116, 114, 111, 111, 112>>)>>,
          <<"id", troop_id>>,
          <<"name", VText(get_troop_name(troop_id))>>,
          <<"method", method>>,
          <<"methodLabel", VText(CASE method = VInt(0) -> <<25351, 23450, 25932, 32676>>
                                   [] method = VInt(1) -> <<21464, 37327, 25351, 23450>>
                                   [] method = VInt(2) -> <<38543, 26426, 36935, 25932>>
                                   [] OTHER -> <<25112, 26007>>)>>,
          <<"canEscape", can_escape>>,
          <<"canLose", can_lose>>,
          <<"enemies", count_enemies(get_troop(troop_id))>> >>)

\* The reference of a random encounter that forgets the map context.
make_encounter_ref_Always(self, can_escape, can_lose) ==
    DictOf(<<
      <<"kind", VText(<<101, 110, 99, 111, 117, 110, 116, 101, 114>>)>>,
      <<"name", VText(<<38543, 26426, 36935, 25932>>)>>,
      <<"mapId", VNone>>,
      <<"mapName", VNone>>,
      <<"encounterStep", VNone>>,
      <<"canEscape", can_escape>>,
      <<"canLose", can_lose>>,
      <<"encounters", VList(<<>>)>> >>)

\* _make_encounter_ref
make_encounter_ref(self, can_escape, can_lose) ==
    IF self.current_encounters = VNone THEN VNone
    ELSE DictOf(<<
      <<"kind", VText(<<101, 110, 99, 111, 117, 110, 116, 101, 114>>)>>,
      <<"name", VText(<<38543, 26426, 36935, 25932>>)>>,
      <<"mapId", self.current_map_id>>,
      <<"mapName", self.current_map_name>>,
      <<"encounterStep", self.current_encounter_step>>,
      <<"canEscape", can_escape>>,
      <<"canLose", can_lose>>,
      <<"encounters", self.current_encounters>> >>)

\* troop_ref.get("enemies") if troop_ref else []
enemies_of(troop_ref) ==
    IF Truthy(troop_ref) THEN Get(troop_ref, "enemies", VNone) ELSE VList(<<>>)

\* An entry of the encounter table of a map.
encounter_entry(e) ==
    DictOf(<<
      <<"troopId", Get(e, "troopId", VInt(0))>>,
      <<"troopName", VText(get_troop_name(Get(e, "troopId", VInt(0))))>>,
      <<"weight", Get(e, "weight", VInt(1))>>,
      <<"regionSet", Or(Get(e, "regionSet", VNone), VList(<<>>))>>,
      <<"enemies", enemies_of(make_troop_ref(Get(e, "troopId", VInt(0)), VInt(0),
                                             VBool(FALSE), VBool(FALSE)))>> >>)

\* The entries of a list, each made by an operator.
MapSeq(items, Op(_)) == [i \in DOMAIN items |-> Op(items[i])]

\* _build_map_encounters
build_map_encounters(map_data) ==
    IF ~IsDict(map_data) THEN VList(<<>>)
    ELSE VList(MapSeq(
            SelectSeqOf(Or(Get(map_data, "encounterList", VNone), VList(<<>>)).items,
                LAMBDA e : IsDict(e) /\ Truthy(Get(e, "troopId", VInt(0)))),
            encounter_entry))

\* set_map_context
set_map_context(map_id, map_name, map_data) ==
    [current_map_id |-> map_id,
     current_map_name |-> map_name,
     current_encounter_step |->
        IF IsDict(map_data) THEN Get(map_data, "encounterStep", VNone) ELSE VNone,
     current_encounters |-> build_map_encounters(map_data)]

\* clear_map_context
clear_map_context == NoContext

\* The value of _translate: (text, css class) or (text, css class, refs).
Translated(text, cls, refs) == [text |-> text, cls |-> cls, refs |-> refs]

\* [ref] if ref else None
RefList(ref) == IF Truthy(ref) THEN VList(<<ref>>) ELSE VNone

\* _fmt_gold
fmt_gold(p) ==
    LET op == Param(p, 0, VInt(0))
        op_t == Param(p, 1, VInt(0))
        val == Param(p, 2, VInt(0))
        sign == IF EqZero(op) THEN <<43>> ELSE <<45>>
    IN  IF EqZero(op_t) THEN <<91, 37329, 24065, 93, 32>> \o sign \o Fmt(val)
        ELSE <<91, 37329, 24065, 93, 32>> \o sign \o <<21464, 37327, 91>> \o get_variable_name(val) \o <<93, 30340, 20540>>

\* _make_item_ref
make_item_ref(kind, iid, name) ==
    IF kind = <<>> \/ ~Truthy(iid) \/ name = <<>> THEN VNone
    ELSE DictOf(<< <<"kind", VText(kind)>>, <<"id", iid>>, <<"name", VText(name)>> >>)

\* _fmt_item: the text and the reference
fmt_item(p, label, name_fn(_), kind) ==
    LET iid == Param(p, 0, VInt(0))
        op == Param(p, 1, VInt(0))
        op_t == Param(p, 2, VInt(0))
        val == Param(p, 3, VInt(1))
        sign == IF EqZero(op) THEN <<43>> ELSE <<45>>
        name == name_fn(iid)
    IN  [text |-> IF EqZero(op_t)
                  THEN <<91>> \o label \o <<93, 32>> \o name \o <<32, 120>> \o sign \o Fmt(val)
                  ELSE <<91>> \o label \o <<93, 32>> \o name \o <<32, 120>> \o sign \o <<21464, 37327, 20540>>,
         ref |-> make_item_ref(kind, iid, name)]

\* _fmt_transfer: the text and the reference
fmt_transfer(p) ==
    LET method == Param(p, 0, VInt(0))
        mid == Param(p, 1, VInt(0))
        x == Param(p, 2, VInt(0))
        y == Param(p, 3, VInt(0))
        name == get_map_name(mid)
    IN  IF EqZero(method)
        THEN [text |-> <<91, 20256, 36865, 93, 32, 8594, 32>> \o name \o <<40, 73, 68, 58>> \o Fmt(mid) \o <<41, 32, 40>> \o Fmt(x)
                        \o <<44>> \o Fmt(y) \o <<41>>,
              ref |-> DictOf(<< <<"kind", VText(<<116, 114, 97, 110, 115, 102, 101, 114>>)>>, <<"name", VText(name)>>,
                                <<"mapId", mid>>, <<"mapName", VText(name)>>,
                                <<"x", x>>, <<"y", y>> >>)]
        ELSE [text |-> <<91, 20256, 36865, 93, 32, 8594, 32, 21464, 37327, 25351, 23450, 20301, 32622>>, ref |-> VNone]

\* The opcodes _translate, _translate_misc and _translate_misc2 have a
\* handler for.
HandledOpcodes ==
    {101, 401, 102, 402, 403, 404, 111, 411, 412, 121, 122, 123, 125, 126, 127, 128,
     201, 103, 104, 105, 405, 112, 413, 113, 115, 124, 129, 108, 408, 117, 118, 119,
     230, 241, 245, 250, 301, 601, 602, 603, 355, 655, 356, 202, 203, 204, 205, 505,
     206, 211, 212, 213, 214, 216, 217, 221, 222, 223, 224, 225, 231, 232, 233, 234,
     235, 242, 243, 244, 246, 251, 261, 132, 133, 134, 135, 136, 137, 138, 139, 140,
     281, 282, 283, 284, 302, 605, 303, 311, 312, 313, 314, 315, 316, 317, 318, 319,
     320, 321, 322, 323, 331, 332, 333, 334, 335, 336, 340, 342, 0, 604}

\* The opcodes whose handler the model has.
ModelledOpcodes ==
    {101, 401, 125, 126, 127, 128, 201, 105, 405, 108, 301, 355, 655, 356,
     112, 505, 0, 404, 412, 413, 604}

ClsTalk == VText(<<99, 109, 100, 45, 116, 97, 108, 107>>)

ClsTalkText == VText(<<99, 109, 100, 45, 116, 97, 108, 107, 45, 116, 101, 120, 116>>)

ClsGold == VText(<<99, 109, 100, 45, 103, 111, 108, 100>>)

ClsItem == VText(<<99, 109, 100, 45, 105, 116, 101, 109>>)

ClsTransfer == VText(<<99, 109, 100, 45, 116, 114, 97, 110, 115, 102, 101, 114>>)

ClsBattle == VText(<<99, 109, 100, 45, 98, 97, 116, 116, 108, 101>>)

ClsComment == VText(<<99, 109, 100, 45, 99, 111, 109, 109, 101, 110, 116>>)

ClsScript == VText(<<99, 109, 100, 45, 115, 99, 114, 105, 112, 116>>)

ClsCond == VText(<<99, 109, 100, 45, 99, 111, 110, 100>>)

ClsUnknown == VText(<<99, 109, 100, 45, 117, 110, 107, 110, 111, 119, 110>>)

\* A text with its reference, as _translate returns them.
WithRef(pair, cls) == Translated(VText(pair.text), cls, RefList(pair.ref))

\* The text of the battle command 301.
translate_battle(self, p) ==
    LET btype == Param(p, 0, VInt(0))
        tid == Param(p, 1, VInt(0))
        can_escape == VBool(Truthy(Param(p, 2, VBool(FALSE))))
        can_lose == VBool(Truthy(Param(p, 3, VBool(FALSE))))
        extra_s == CASE can_escape.b /\ can_lose.b -> <<32, 40, 21487, 36867, 36305, 47, 21487, 22833, 36133, 41>>
                     [] can_escape.b /\ ~can_lose.b -> <<32, 40, 21487, 36867, 36305, 41>>
                     [] ~can_escape.b /\ can_lose.b -> <<32, 40, 21487, 22833, 36133, 41>>
                     [] OTHER -> <<>>
    IN  CASE EqZero(btype) ->
                Translated(VText(<<91, 25112, 26007, 93, 32, 25932, 32676, 35>> \o Fmt(tid) \o <<12300>> \o get_troop_name(tid)
                                 \o <<12301>> \o extra_s),
                           ClsBattle, RefList(make_troop_ref(tid, btype, can_escape, can_lose)))
          [] btype = VInt(1) ->
                Translated(VText(<<91, 25112, 26007, 93, 32, 21464, 37327, 25351, 23450, 25932, 32676, 58, 32, 21464, 37327, 91>> \o get_variable_name(tid)
                                 \o <<93>> \o extra_s), ClsBattle, VNone)
          [] btype = VInt(2) ->
                Translated(VText(<<91, 25112, 26007, 93, 32, 38543, 26426, 36935, 25932>> \o extra_s), ClsBattle,
                           RefList(make_encounter_ref(self, can_escape, can_lose)))
          [] OTHER -> Translated(VText(<<91, 25112, 26007, 93, 32, 36827, 20837, 25112, 26007>>), ClsBattle, VNone)

\* The opcodes the last test of _translate_misc2 lists as silent.
SilentOpcodes == {0, 404, 412, 413, 604}

\* return None, "": no line.
Silent == Translated(VNone, VText(<<>>), VNone)

\* The line of opcode 413 in _translate, which comes before the list of
\* silent opcodes is looked at.
RepeatAbove == Translated(VText(<<91, 20197, 19978, 21453, 22797, 93>>), ClsCond, VNone)

\* An unknown opcode without a line.
Placeholder_Silent(code) == Translated(VNone, VText(<<>>), VNone)

\* The last line of _translate_misc2: the placeholder of an unknown opcode.
Placeholder(code) == Translated(VText(<<91, 25351, 20196, 32>> \o Fmt(code) \o <<93>>), ClsUnknown, VNone)

\* _translate, _translate_misc, _translate_misc2 for the show-text, scrolling
\* text, script, comment, gold, item, transfer, battle and loop commands, the
\* silent markers and the opcodes without a handler; the handlers of the other
\* opcodes are not part of the model, whose commands do not use them.
translate(self, code, p) ==
    LET item_line(label, name_fn(_), kind) ==
            WithRef(fmt_item(p, label, name_fn, kind), ClsItem)
        text_or_none(prefix, suffix) ==
            IF Truthy(p) THEN VText(prefix \o Fmt(Param(p, 0, VNone)) \o suffix) ELSE VNone
    IN  CASE code = VInt(101) ->
                LET face == Param(p, 0, VText(<<>>))
                    p3 == Param(p, 3, VNone)
                    pos == CASE p3 = VInt(0) -> <<19978, 26041>>
                             [] p3 = VInt(1) -> <<20013, 38388>>
                             [] OTHER -> <<19979, 26041>>
                    tag == IF Truthy(face) THEN <<22836, 20687, 58>> \o Fmt(face) ELSE <<>>
                IN  Translated(VText(<<91, 23545, 35805, 93, 32, 40>> \o tag \o <<32, 20301, 32622, 58>> \o pos \o <<41>>), ClsTalk, VNone)
          [] code = VInt(401) -> Translated(text_or_none(<<12300>>, <<12301>>), ClsTalkText, VNone)
          [] code = VInt(125) -> Translated(VText(fmt_gold(p)), ClsGold, VNone)
          [] code = VInt(126) -> item_line(<<29289, 21697>>, get_item_name, <<105, 116, 101, 109, 115>>)
          [] code = VInt(127) -> item_line(<<27494, 22120>>, get_weapon_name, <<119, 101, 97, 112, 111, 110, 115>>)
          [] code = VInt(128) -> item_line(<<38450, 20855>>, get_armor_name, <<97, 114, 109, 111, 114, 115>>)
          [] code = VInt(201) ->
                WithRef(fmt_transfer(p), ClsTransfer)
          [] code = VInt(105) ->
                Translated(VText(<<91, 28378, 21160, 25991, 26412, 93, 32, 40, 36895, 24230, 58>> \o Fmt(Param(p, 0, VInt(2))) \o <<41>>),
                           ClsTalk, VNone)
          [] code = VInt(405) -> Translated(text_or_none(<<12300>>, <<12301>>), ClsTalkText, VNone)
          [] code = VInt(108) -> Translated(text_or_none(<<91, 27880, 37322, 93, 32>>, <<>>), ClsComment, VNone)
          [] code = VInt(301) -> translate_battle(self, p)
          [] code = VInt(355) -> Translated(text_or_none(<<91, 33050, 26412, 93, 32>>, <<>>), ClsScript, VNone)
          [] code = VInt(655) -> Translated(text_or_none(<<32, 32>>, <<>>), ClsScript, VNone)
          [] code = VInt(356) -> Translated(text_or_none(<<91, 25554, 20214, 93, 32>>, <<>>), ClsScript, VNone)
          [] code = VInt(404) -> Silent
          [] code = VInt(412) -> Silent
          [] code = VInt(112) -> Translated(VText(<<91, 24490, 29615, 93>>), ClsCond, VNone)
          [] code = VInt(413) -> RepeatAbove
          [] code = VInt(505) -> Silent
          [] code.t = "int" /\ code.v \in SilentOpcodes \ {404, 412, 413} -> Silent
          [] code.t = "int" /\ code.v \in HandledOpcodes \ ModelledOpcodes ->
                Translated(VNone, VText(<<>>), VNone)
          [] OTHER -> Placeholder(code)

\* The kinds by a priority that puts transfer first.
by_priority_TransferFirst(codes) ==
    IF "transfer" \in codes THEN VText(<<116, 114, 97, 110, 115, 102, 101, 114>>)
    ELSE IF "treasure" \in codes THEN VText(<<116, 114, 101, 97, 115, 117, 114, 101>>)
    ELSE IF "battle" \in codes THEN VText(<<98, 97, 116, 116, 108, 101>>)
    ELSE IF "dialog" \in codes THEN VText(<<100, 105, 97, 108, 111, 103>>)
    ELSE VText(<<111, 116, 104, 101, 114>>)

\* The type of an event whose commands are of the given kinds.
by_priority(codes) ==
    IF "treasure" \in codes THEN VText(<<116, 114, 101, 97, 115, 117, 114, 101>>)
    ELSE IF "transfer" \in codes THEN VText(<<116, 114, 97, 110, 115, 102, 101, 114>>)
    ELSE IF "battle" \in codes THEN VText(<<98, 97, 116, 116, 108, 101>>)
    ELSE IF "dialog" \in codes THEN VText(<<100, 105, 97, 108, 111, 103>>)
    ELSE VText(<<111, 116, 104, 101, 114>>)

\* _classify_event: the kinds of the commands of all pages, by priority.
classify_event(evt) ==
    LET pages == SelectSeqOf(Get(evt, "pages", VList(<<>>)).items, LAMBDA pg : pg # VNone)
        kind(cmd) ==
            LET c == Get(cmd, "code", VInt(0))
                p == Get(cmd, "parameters", VList(<<>>))
            IN  IF c \in {VInt(126), VInt(127), VInt(128)} /\ EqZero(Param(p, 1, VNone))
                THEN "treasure"
                ELSE IF c = VInt(125) /\ EqZero(Param(p, 0, VNone)) THEN "treasure"
                ELSE IF c = VInt(201) THEN "transfer"
                ELSE IF c = VInt(301) THEN "battle"
                ELSE IF c = VInt(101) THEN "dialog"
                ELSE "none"
        codes == UNION {{kind(Get(pages[i], "list", VList(<<>>)).items[j]) :
                            j \in DOMAIN Get(pages[i], "list", VList(<<>>)).items} :
                        i \in DOMAIN pages}
    IN  by_priority(codes)

\* story_codes of _is_story_page
story_codes == {101, 401, 102, 402, 403, 105, 405, 355, 356}

\* A page is never a story page.
is_story_page_Never(cmd_list) == FALSE

\* _is_story_page
is_story_page(cmd_list) ==
    \E i \in DOMAIN Or(cmd_list, VList(<<>>)).items :
        LET cmd == cmd_list.items[i]
        IN  /\ IsDict(cmd)
            /\ Get(cmd, "code", VNone).t = "int"
            /\ Get(cmd, "code", VNone).v \in story_codes

\* The line of a command that _translate gave a text, else None.
command_line(cmd, result) ==
    IF ~Truthy(result.text) THEN VNone
    ELSE IF Truthy(result.refs)
    THEN DictOf(<< <<"indent", Get(cmd, "indent", VInt(0))>>,
                   <<"text", result.text>>, <<"cls", result.cls>>,
                   <<"refs", result.refs>> >>)
    ELSE DictOf(<< <<"indent", Get(cmd, "indent", VInt(0))>>,
                   <<"text", result.text>>, <<"cls", result.cls>> >>)

\* The lines of the commands from the last to the first.
interpret_commands_Reversed(self, cmd_list) ==
    VList(SelectSeqOf(
        [i \in DOMAIN cmd_list.items |->
            command_line(cmd_list.items[Len(cmd_list.items) + 1 - i],
                         translate(self,
                            Get(cmd_list.items[Len(cmd_list.items) + 1 - i], "code", VInt(0)),
                            Get(cmd_list.items[Len(cmd_list.items) + 1 - i], "parameters",
                                VList(<<>>))))],
        LAMBDA line : line # VNone))

\* _interpret_commands: a line for every command whose text is not empty.
interpret_commands(self, cmd_list) ==
    VList(SelectSeqOf(
        [i \in DOMAIN cmd_list.items |->
            command_line(cmd_list.items[i],
                         translate(self, Get(cmd_list.items[i], "code", VInt(0)),
                                   Get(cmd_list.items[i], "parameters", VList(<<>>))))],
        LAMBDA line : line # VNone))

\* _parse_conditions
parse_conditions(cond) ==
    LET on(key) == Truthy(Get(cond, key, VNone))
        num(key) == Get(cond, key, VInt(0))
        switch(key) == <<24320, 20851, 32, 91>> \o get_switch_name(num(key)) \o <<93, 32, 61, 32, 79, 78>>
    IN  VList(
          (IF on("switch1Valid") THEN <<VText(switch("switch1Id"))>> ELSE <<>>)
          \o (IF on("switch2Valid") THEN <<VText(switch("switch2Id"))>> ELSE <<>>)
          \o (IF on("variableValid")
              THEN <<VText(<<21464, 37327, 32, 91>> \o get_variable_name(num("variableId")) \o <<93, 32, 62, 61, 32>>
                           \o Fmt(num("variableValue")))>>
              ELSE <<>>)
          \o (IF on("selfSwitchValid")
              THEN <<VText(<<29420, 31435, 24320, 20851, 32>> \o Fmt(Get(cond, "selfSwitchCh", VText(<<65>>))) \o <<32, 61, 32, 79, 78>>)>>
              ELSE <<>>)
          \o (IF on("itemValid")
              THEN <<VText(<<25345, 26377, 29289, 21697, 32, 91>> \o get_item_name(num("itemId")) \o <<93>>)>>
              ELSE <<>>)
          \o (IF on("actorValid")
              THEN <<VText(<<35282, 33394, 32, 35>> \o Fmt(num("actorId")) \o <<32, 22312, 38431, 20237, 20013>>)>>
              ELSE <<>>))

\* _extract_face_from_commands: the face of the first show-text command that
\* names one.
extract_face_from_commands(raw_list) ==
    LET named == IF raw_list.t # "list" THEN <<>>
                 ELSE SelectSeqOf(raw_list.items, LAMBDA cmd :
                        /\ IsDict(cmd)
                        /\ Get(cmd, "code", VInt(0)) = VInt(101)
                        /\ Get(cmd, "parameters", VList(<<>>)).t = "list"
                        /\ "cp" \in DOMAIN Param(Get(cmd, "parameters", VList(<<>>)), 0,
                                                 VText(<<>>))
                        /\ StripText(Param(Get(cmd, "parameters", VList(<<>>)), 0,
                                           VText(<<>>))).cp # <<>>)
    IN  IF named = <<>> THEN [face_name |-> VText(<<>>), face_index |-> VInt(0)]
        ELSE [face_name |-> StripText(Param(Get(named[1], "parameters", VNone), 0, VNone)),
              face_index |-> VInt(to_int(Param(Get(named[1], "parameters", VNone), 1,
                                               VInt(0)), 0))]

\* _parse_page_visual; int() of a text is not modelled, the pages of the
\* model hold numbers there.
parse_page_visual(image_data, face_name, face_index) ==
    LET image == IF IsDict(image_data) THEN image_data ELSE VDict(EmptyMap)
        at(key) == Get(image, key, VNone)
        character_name ==
            StripText(VText(Fmt(Or(Or(at("characterName"), at("character_name")),
                                   VText(<<>>)))))
        character_index ==
            to_int(Get(image, "characterIndex", Get(image, "character_index", VInt(0))), 0)
        is_big == \/ Truthy(Get(image, "isBigCharacter", VBool(FALSE)))
                  \/ (character_name.cp # <<>> /\ Head(character_name.cp) = 36)
        out_face_name ==
            StripText(VText(Fmt(Or(Or(Or(face_name, at("faceName")), at("face_name")),
                                   VText(<<>>)))))
        out_face_index ==
            IF out_face_name.cp # <<>>
            THEN to_int(Or(Or(Or(face_index, at("faceIndex")), at("face_index")), VInt(0)), 0)
            ELSE 0
        direction ==
            to_int(Or(Get(image, "direction", Get(image, "characterDirection", VInt(2))),
                      VInt(2)), 2)
        pattern ==
            to_int(Or(Get(image, "pattern", Get(image, "characterPattern", VInt(1))),
                      VInt(1)), 1)
    IN  IF character_name.cp = <<>> /\ out_face_name.cp = <<>> THEN VDict(EmptyMap)
        ELSE DictOf(<<
              <<"characterName", character_name>>,
              <<"characterIndex", VInt(character_index)>>,
              <<"isBigCharacter", VBool(is_big)>>,
              <<"direction", VInt(direction)>>,
              <<"pattern", VInt(pattern)>>,
              <<"faceName", out_face_name>>,
              <<"faceIndex", VInt(out_face_index)>> >>)

\* The mark of a battle reference of a story page.
MarkSpecial(ref) ==
    IF Get(ref, "kind", VNone) \in {VText(<<116, 114, 111, 111, 112>>), VText(<<101, 110, 99, 111, 117, 110, 116, 101, 114>>)}
    THEN VDict([k \in DOMAIN ref.map \cup {VStr("special"), VStr("specialReason")} |->
            CASE k = VStr("special") -> VBool(TRUE)
              [] k = VStr("specialReason") -> VText(<<21095, 24773, 40, 21547, 23545, 35805, 47, 36873, 39033, 47, 33050, 26412, 41>>)
              [] OTHER -> ref.map[k]])
    ELSE ref

\* A line with the references of a battle command marked.
marked_line(cmd) ==
    IF Get(cmd, "cls", VNone) = ClsBattle /\ Truthy(Get(cmd, "refs", VNone))
    THEN Update(cmd, DictOf(<< <<"refs",
            VList(MapSeq(cmd.map[VStr("refs")].items, MarkSpecial))>> >>))
    ELSE cmd

\* The lines of a page, marked if it is a story page.
page_commands(commands, story) ==
    IF story THEN VList(MapSeq(commands.items, marked_line)) ELSE commands

\* The visual of a page, with the face its commands name.
page_visual(image_data, face) ==
    parse_page_visual(image_data, face.face_name, face.face_index)

\* trigger_map.get(trigger, ...)
trigger_text(trigger) ==
    CASE trigger = VInt(0) -> <<30830, 23450, 38190>>
      [] trigger = VInt(1) -> <<29609, 23478, 25509, 35302>>
      [] trigger = VInt(2) -> <<20107, 20214, 25509, 35302>>
      [] trigger = VInt(3) -> <<33258, 21160, 25191, 34892>>
      [] trigger = VInt(4) -> <<24182, 34892, 22788, 29702>>
      [] OTHER -> <<26410, 30693, 40>> \o Fmt(trigger) \o <<41>>

\* _interpret_page
interpret_page(self, page_data, page_index) ==
    DictOf(<<
      <<"index", VInt(page_index + 1)>>,
      <<"trigger", VText(trigger_text(Get(page_data, "trigger", VInt(0))))>>,
      <<"conditions", parse_conditions(Get(page_data, "conditions", VDict(EmptyMap)))>>,
      <<"visual", page_visual(Get(page_data, "image", VDict(EmptyMap)),
                    extract_face_from_commands(Get(page_data, "list", VList(<<>>))))>>,
      <<"commands", page_commands(
                        interpret_commands(self, Get(page_data, "list", VList(<<>>))),
                        is_story_page(Get(page_data, "list", VList(<<>>))))>> >>)

\* interpret_event
interpret_event(self, evt) ==
    LET pages == Get(evt, "pages", VList(<<>>)).items
        shown == SelectSeqOf([i \in DOMAIN pages |-> i], LAMBDA i : pages[i] # VNone)
    IN  DictOf(<<
          <<"id", Get(evt, "id", VText(<<63>>))>>,
          <<"name", Get(evt, "name", VText(<<>>))>>,
          <<"x", Get(evt, "x", VInt(0))>>,
          <<"y", Get(evt, "y", VInt(0))>>,
          <<"pageCount", VInt(Len(pages))>>,
          <<"pages", VList([k \in DOMAIN shown |->
                        interpret_page(self, pages[shown[k]], shown[k] - 1)])>>,
          <<"type", classify_event(evt)>> >>)

(***************************************************************************)
(* The interpreter as a state machine                                      *)
(***************************************************************************)

\* The longest event, counted in commands and page ends.
MaxEventLen == 3

\* A command of an event page.
Command(code, parameters) ==
    DictOf(<< <<"code", VInt(code)>>, <<"indent", VInt(0)>>, <<"parameters", parameters>> >>)

Ints(ns) == VList([i \in DOMAIN ns |-> VInt(ns[i])])

GainGold == Command(125, Ints(<<0, 0, 50>>))

LoseGold == Command(125, Ints(<<1, 0, 50>>))

GainItem == Command(126, Ints(<<1, 0, 0, 1>>))

LoseArmor == Command(128, Ints(<<1, 1, 0, 1>>))

Transfer == Command(201, Ints(<<0, 1, 3, 4, 0, 0>>))

TroopBattle == Command(301, Ints(<<0, 1, 1, 0>>))

RandomBattle == Command(301, Ints(<<2, 0, 0, 1>>))

ShowText == Command(101, VList(<<VText(<<70>>), VInt(0), VInt(0), VInt(2)>>))

Script == Command(355, VList(<<VText(<<120>>)>>))

\* Two commands of opcodes without a handler: one without a parameter list,
\* one with parameters of several types.
UnknownBare == Command(999, VNone)

UnknownFull == Command(109, VList(<<VNone, VText(<<120>>), VList(<<>>), VInt(3)>>))

Commands ==
    {GainGold, LoseGold, GainItem, LoseArmor, Transfer, TroopBattle, RandomBattle,
     ShowText, Script, UnknownBare, UnknownFull}

\* The end of a page, and the end of a page followed by an empty (None) page.
NewPage == VStr("new page")

NullPage == VStr("null page")

EventShapes == UNION {[1..n -> Commands \cup {NewPage, NullPage}] : n \in 0..MaxEventLen}

\* A page of the given commands.
PageOf(cmds) ==
    DictOf(<< <<"trigger", VInt(0)>>, <<"conditions", VDict(EmptyMap)>>,
              <<"image", VDict(EmptyMap)>>, <<"list", VList(cmds)>> >>)

\* The pages a shape spells.
RECURSIVE PagesOf(_, _)
PagesOf(shape, cmds) ==
    IF shape = <<>> THEN <<PageOf(cmds)>>
    ELSE IF Head(shape) = NewPage THEN <<PageOf(cmds)>> \o PagesOf(Tail(shape), <<>>)
    ELSE IF Head(shape) = NullPage THEN <<PageOf(cmds), VNone>> \o PagesOf(Tail(shape), <<>>)
    ELSE PagesOf(Tail(shape), Append(cmds, Head(shape)))

EventOf(shape) ==
    DictOf(<< <<"id", VInt(1)>>, <<"name", VText(<<69, 86, 48, 48, 49>>)>>, <<"x", VInt(2)>>,
              <<"y", VInt(3)>>, <<"pages", VList(PagesOf(shape, <<>>))>> >>)

\* The maps a context is set for: a map without data, and a map with an
\* encounter step and an encounter list one entry of which names a troop.
CtxMapIds == {1, 2}

MapName(map_id) == VText(<<77, 65, 80>> \o Digits(map_id))

MapWithEncounters ==
    DictOf(<< <<"encounterStep", VInt(30)>>,
              <<"encounterList", VList(<<
                  DictOf(<< <<"troopId", VInt(1)>>, <<"weight", VInt(5)>>,
                            <<"regionSet", VList(<<VInt(1)>>)>> >>),
                  VInt(7),
                  DictOf(<< <<"troopId", VInt(0)>>, <<"weight", VInt(9)>> >>) >>)>> >>)

MapDatas == {VNone, MapWithEncounters}

\* No call of set_map_context is in force.
NoArgs == [set |-> FALSE]

ItpInit == itp = [self |-> NoContext, args |-> NoArgs, evt |-> VNone, out |-> VNone]

\* set_map_context(map_id, map_name, map_data), once the call before it is over.
SetMapContext ==
    /\ itp.out = VNone
    /\ \E map_id \in CtxMapIds, map_data \in MapDatas :
        itp' = [self |-> set_map_context(VInt(map_id), MapName(map_id), map_data),
                args |-> [set |-> TRUE, map_id |-> VInt(map_id),
                          map_name |-> MapName(map_id), map_data |-> map_data],
                evt |-> VNone, out |-> VNone]

\* clear_map_context()
ClearMapContext ==
    /\ itp.out = VNone
    /\ itp' = [self |-> clear_map_context, args |-> NoArgs, evt |-> VNone, out |-> VNone]

\* interpret_event(evt), which leaves the interpreter as it is.
InterpretEvent ==
    /\ itp.out = VNone
    /\ \E shape \in EventShapes :
        itp' = [itp EXCEPT !.evt = EventOf(shape),
                           !.out = interpret_event(itp.self, EventOf(shape))]

\* The caller is done with what interpret_event returned.
Return ==
    /\ itp.out # VNone
    /\ itp' = [itp EXCEPT !.evt = VNone, !.out = VNone]

ItpNext == SetMapContext \/ ClearMapContext \/ InterpretEvent \/ Return

(***************************************************************************)
(* Claims about the interpreter                                            *)
(***************************************************************************)

\* The pages of the event of the call at hand, and those of its result.
SourcePages == itp.evt.map[VStr("pages")].items

OutPages == itp.out.map[VStr("pages")].items

\* The page of the event a page of the result was made from.
SourceOf(out_page) == SourcePages[out_page.map[VStr("index")].v]

CmdsOf(page) == page.map[VStr("list")].items

LinesOf(out_page) == out_page.map[VStr("commands")].items

CodeOf(cmd) == cmd.map[VStr("code")].v

\* The commands of all pages of the event.
AllCommands ==
    UNION {{CmdsOf(SourcePages[i])[j] : j \in DOMAIN CmdsOf(SourcePages[i])} :
            i \in {k \in DOMAIN SourcePages : SourcePages[k] # VNone}}

\* A gold command whose first operand, or an item, weapon or armor command
\* whose second operand, says increase.
Increases(cmd) ==
    \/ CodeOf(cmd) = 125 /\ Param(cmd.map[VStr("parameters")], 0, VNone) = VInt(0)
    \/ CodeOf(cmd) \in {126, 127, 128}
        /\ Param(cmd.map[VStr("parameters")], 1, VNone) = VInt(0)

HasCode(code) == \E cmd \in AllCommands : CodeOf(cmd) = code

\* C15: the type of an interpreted event is treasure if a command of any page
\* increases gold, items, weapons or armors, else transfer if one teleports
\* (201), else battle if one starts a battle (301), else dialog if one shows
\* text (101), else other.
C15_TypeByPriority ==
    itp.out # VNone =>
        itp.out.map[VStr("type")] =
            IF \E cmd \in AllCommands : Increases(cmd) THEN VText(<<116, 114, 101, 97, 115, 117, 114, 101>>)
            ELSE IF HasCode(201) THEN VText(<<116, 114, 97, 110, 115, 102, 101, 114>>)
            ELSE IF HasCode(301) THEN VText(<<98, 97, 116, 116, 108, 101>>)
            ELSE IF HasCode(101) THEN VText(<<100, 105, 97, 108, 111, 103>>)
            ELSE VText(<<111, 116, 104, 101, 114>>)

\* An event that teleports on its first page and gains gold on its second is
\* a treasure.
C15_Witness ==
    /\ itp.out # VNone
    /\ Len(SourcePages) = 2
    /\ SourcePages[2] # VNone
    /\ CmdsOf(SourcePages[1]) = <<Transfer>>
    /\ CmdsOf(SourcePages[2]) = <<GainGold>>
    /\ itp.out.map[VStr("type")] = VText(<<116, 114, 101, 97, 115, 117, 114, 101>>)

\* The opcodes of dialogue, choices, scrolling text and scripting.
DialogueOpcodes == {101, 401}

ChoiceOpcodes == {102, 402, 403}

ScrollingTextOpcodes == {105, 405}

ScriptingOpcodes == {355, 356}

HasStoryOpcode(page) ==
    \E i \in DOMAIN CmdsOf(page) :
        CodeOf(CmdsOf(page)[i]) \in
            DialogueOpcodes \cup ChoiceOpcodes \cup ScrollingTextOpcodes \cup ScriptingOpcodes

\* The troop and encounter references of the battle lines of a page.
BattleRefs(out_page) ==
    UNION {{line.map[VStr("refs")].items[r] : r \in DOMAIN line.map[VStr("refs")].items} :
            line \in {LinesOf(out_page)[i] : i \in
                        {j \in DOMAIN LinesOf(out_page) :
                            /\ LinesOf(out_page)[j].map[VStr("cls")] = ClsBattle
                            /\ VStr("refs") \in DOMAIN LinesOf(out_page)[j].map}}}

IsSpecial(ref) ==
    /\ VStr("special") \in DOMAIN ref.map
    /\ ref.map[VStr("special")] = VBool(TRUE)

C16_OtherPageReached ==
    /\ itp.out # VNone
    /\ Len(SourcePages) = 2
    /\ SourcePages[2] # VNone
    /\ CmdsOf(SourcePages[1]) = <<ShowText>>
    /\ CmdsOf(SourcePages[2]) = <<TroopBattle>>
    /\ \E ref \in BattleRefs(OutPages[2]) :
        /\ ref.map[VStr("kind")] = VText(<<116, 114, 111, 111, 112>>)
        /\ ~IsSpecial(ref)

RandomBattleLines(out_page) ==
    {LinesOf(out_page)[i] : i \in
        {j \in DOMAIN LinesOf(out_page) :
            StartsWith(LinesOf(out_page)[j].map[VStr("text")].cp, <<91, 25112, 26007, 93, 32, 38543, 26426, 36935, 25932>>)}}

RandomBattleCommands(page) ==
    {i \in DOMAIN CmdsOf(page) :
        /\ CodeOf(CmdsOf(page)[i]) = 301
        /\ Param(CmdsOf(page)[i].map[VStr("parameters")], 0, VNone) = VInt(2)}

\* The encounter table of the map data given to set_map_context: an entry
\* for each entry of the list that names a troop.
TableOfArgs ==
    IF itp.args.map_data = MapWithEncounters
    THEN <<[troopId |-> VInt(1), weight |-> VInt(5)]>>
    ELSE <<>>

\* C17: the line of a random-encounter battle command has no reference while
\* no set_map_context is in force, and otherwise one encounter reference with
\* the map id, map name, encounter step and encounter table of the
\* set_map_context in force.
C17_EncounterRefFollowsContext ==
    itp.out # VNone =>
        \A k \in DOMAIN OutPages :
            /\ Cardinality(RandomBattleCommands(SourceOf(OutPages[k]))) > 0
                => RandomBattleLines(OutPages[k]) # {}
            /\ \A line \in RandomBattleLines(OutPages[k]) :
                IF ~itp.args.set THEN VStr("refs") \notin DOMAIN line.map
                ELSE /\ VStr("refs") \in DOMAIN line.map
                     /\ Len(line.map[VStr("refs")].items) = 1
                     /\ LET ref == line.map[VStr("refs")].items[1].map
                            table == ref[VStr("encounters")].items
                        IN  /\ ref[VStr("kind")] = VText(<<101, 110, 99, 111, 117, 110, 116, 101, 114>>)
                            /\ ref[VStr("mapId")] = itp.args.map_id
                            /\ ref[VStr("mapName")] = itp.args.map_name
                            /\ ref[VStr("encounterStep")] =
                                IF itp.args.map_data = VNone THEN VNone
                                ELSE itp.args.map_data.map[VStr("encounterStep")]
                            /\ Len(table) = Len(TableOfArgs)
                            /\ \A i \in DOMAIN table :
                                /\ table[i].map[VStr("troopId")] = TableOfArgs[i].troopId
                                /\ table[i].map[VStr("weight")] = TableOfArgs[i].weight

\* A random-encounter battle interpreted for map 2 and its encounters.
C17_Witness ==
    /\ itp.out # VNone
    /\ itp.args.set
    /\ itp.args.map_id = VInt(2)
    /\ itp.args.map_data = MapWithEncounters
    /\ \E k \in DOMAIN OutPages : \E line \in RandomBattleLines(OutPages[k]) :
        /\ line.map[VStr("refs")].items[1].map[VStr("mapId")] = VInt(2)
        /\ line.map[VStr("refs")].items[1].map[VStr("encounterStep")] = VInt(30)
        /\ Len(line.map[VStr("refs")].items[1].map[VStr("encounters")].items) = 1

\* A random-encounter battle interpreted without a map context.
C17_NoContextReached ==
    /\ itp.out # VNone
    /\ ~itp.args.set
    /\ \E k \in DOMAIN OutPages : \E line \in RandomBattleLines(OutPages[k]) :
        VStr("refs") \notin DOMAIN line.map

\* C18: every command of a page has its line, in order; the line of an opcode
\* without a handler is the placeholder naming the opcode, of the
\* unknown-command class, and no other line is.
C18_UnknownOpcodePlaceholder ==
    itp.out # VNone =>
        \A k \in DOMAIN OutPages :
            LET cmds == CmdsOf(SourceOf(OutPages[k]))
                lines == LinesOf(OutPages[k])
            IN  /\ Len(lines) = Len(cmds)
                /\ \A i \in DOMAIN cmds :
                    IF CodeOf(cmds[i]) \notin HandledOpcodes
                    THEN lines[i] = DictOf(<<
                            <<"indent", VInt(0)>>,
                            <<"text", VText(<<91, 25351, 20196, 32>> \o Digits(CodeOf(cmds[i])) \o <<93>>)>>,
                            <<"cls", VText(<<99, 109, 100, 45, 117, 110, 107, 110, 111, 119, 110>>)>> >>)
                    ELSE lines[i].map[VStr("cls")] # VText(<<99, 109, 100, 45, 117, 110, 107, 110, 111, 119, 110>>)

\* Two unknown commands, one without a parameter list, before a transfer:
\* two placeholders and the line of the transfer.
C18_Witness ==
    /\ itp.out # VNone
    /\ CmdsOf(SourcePages[1]) = <<UnknownBare, UnknownFull, Transfer>>
    /\ LinesOf(OutPages[1])[1].map[VStr("text")] = VText(<<91, 25351, 20196, 32, 57, 57, 57, 93>>)
    /\ LinesOf(OutPages[1])[2].map[VStr("text")] = VText(<<91, 25351, 20196, 32, 49, 48, 57, 93>>)
    /\ LinesOf(OutPages[1])[3].map[VStr("cls")] = ClsTransfer

(***************************************************************************)
(* GameRegistry (game_registry.py) and AppState (app_state.py)             *)
(*                                                                         *)
(* Every game is an MV game: it is found by its MapInfos.json, and its     *)
(* data is valid while that file is there.  The registry file and the time *)
(* stamps of the entries are left out.                                     *)
(***************************************************************************)

\* The executables, the ids the registry hands out, and the folder with the
\* data directory of an executable: the first two share a folder.
MaxExes == 3

MaxIds == 2

Exes == 1..MaxExes

FolderOf(exe) == (exe + 1) \div 2

Folders == {FolderOf(exe) : exe \in Exes}

\* active_game_id "": no active game.
NoId == 0

NoGame == [id |-> NoId]

NoCtx == [game |-> NoGame]

\* Names: the title the folder of a game gives, a name a user gives, a
\* generic name and a blank one.
FolderTitle(folder) == <<81, 117, 101, 115, 116, 32>> \o Digits(folder)

NameGame == <<71, 97, 109, 101>>

NameBlank == <<32, 32>>

NoName == <<0>>

Strip(text) == RStrip(LStrip(text))

\* Path(exe).stem: every executable is a Game.exe.
ExeStem(exe) == NameGame

\* _is_generic_name
is_generic_name(name) == Lower(Strip(name)) \in {<<>>, <<103, 97, 109, 101>>, <<26410, 21629, 21517, 28216, 25103>>}

\* The folders with a title image, which _select_cover_image finds.
TitleImages == {1}

select_cover_image(folder) == IF folder \in TitleImages THEN <<84, 105, 116, 108, 101, 46, 112, 110, 103>> ELSE <<>>

\* The folders whose resources are plain files, which prepare_resources skips;
\* in the others it fails for want of a decrypter.
PlainResources == {1}

PrepareStatus(folder) == IF folder \in PlainResources THEN "skipped" ELSE "failed"

\* The position of the first game a test selects, 0 if there is none.
FirstIndex(games, Test(_)) ==
    IF \E i \in DOMAIN games : Test(games[i])
    THEN CHOOSE i \in DOMAIN games :
            Test(games[i]) /\ \A j \in 1..(i - 1) : ~Test(games[j])
    ELSE 0

\* GameRegistry.get_game: the entry, or NoGame where NotFoundError is raised.
get_game(r, game_id) ==
    LET i == FirstIndex(r.games, LAMBDA g : g.id = game_id)
    IN  IF i = 0 THEN NoGame ELSE r.games[i]

\* GameRegistry.get_active_game
get_active_game(r) == IF r.active = NoId THEN NoGame ELSE get_game(r, r.active)

\* GameRegistry.set_active_game, for a game of the registry
set_active_game(r, game_id) == [r EXCEPT !.active = game_id]

\* GameRegistry.upsert_game: the game of this executable or data directory
\* takes the paths and the name; without one a new entry with a fresh id is
\* appended; the game becomes the active one if there is none.
upsert_game(r, exe, data, name) ==
    LET i == FirstIndex(r.games, LAMBDA g : g.exe_path = exe \/ g.data_path = data)
        entry == IF i # 0
                 THEN [r.games[i] EXCEPT !.exe_path = exe, !.data_path = data,
                                         !.name = IF Strip(name) # <<>> THEN Strip(name) ELSE @]
                 ELSE [id |-> r.next_id,
                       name |-> IF Strip(name) # <<>> THEN Strip(name) ELSE ExeStem(exe),
                       cover_image |-> <<>>,
                       exe_path |-> exe, data_path |-> data, engine |-> "mv"]
    IN  [entry |-> entry,
         reg |-> [games |-> IF i # 0 THEN [r.games EXCEPT ![i] = entry]
                            ELSE Append(r.games, entry),
                  active |-> IF r.active = NoId THEN entry.id ELSE r.active,
                  next_id |-> IF i # 0 THEN r.next_id ELSE r.next_id + 1]]

\* GameRegistry.update_game: NotFoundError for an unknown id,
\* InvalidRequestError for a blank name; NoName and no cover leave the fields.
update_game(r, game_id, name, cover_given, cover_image) ==
    LET i == FirstIndex(r.games, LAMBDA g : g.id = game_id)
    IN  IF i = 0 THEN [raised |-> "NotFoundError", reg |-> r, entry |-> NoGame]
        ELSE IF name # NoName /\ Strip(name) = <<>>
        THEN [raised |-> "InvalidRequestError", reg |-> r, entry |-> NoGame]
        ELSE LET entry == [r.games[i] EXCEPT
                            !.name = IF name # NoName THEN Strip(name) ELSE @,
                            !.cover_image = IF cover_given THEN Strip(cover_image) ELSE @]
             IN  [raised |-> "none", reg |-> [r EXCEPT !.games[i] = entry], entry |-> entry]

\* A delete_game that leaves the active id alone.
delete_game_KeepActive(r, game_id) ==
    LET new_games == SelectSeq(r.games, LAMBDA g : g.id # game_id)
    IN  IF Len(new_games) = Len(r.games) THEN [raised |-> "NotFoundError", reg |-> r]
        ELSE [raised |-> "none", reg |-> [r EXCEPT !.games = new_games]]

\* GameRegistry.delete_game: the first game left becomes the active one when
\* the active one is deleted.
delete_game(r, game_id) ==
    LET new_games == SelectSeq(r.games, LAMBDA g : g.id # game_id)
    IN  IF Len(new_games) = Len(r.games) THEN [raised |-> "NotFoundError", reg |-> r]
        ELSE [raised |-> "none",
              reg |-> [r EXCEPT !.games = new_games,
                                !.active = IF r.active = game_id
                                           THEN (IF new_games # <<>> THEN new_games[1].id
                                                 ELSE NoId)
                                           ELSE @]]

\* AppState._build_context: GameDataInvalidError unless the loader finds
\* MapInfos.json in the data directory of the game.
build_context(game, files) ==
    IF game.data_path \notin files
    THEN [raised |-> "GameDataInvalidError", context |-> NoCtx]
    ELSE [raised |-> "none", context |-> [game |-> game]]

\* AppState._sync_active_context: the context of the active game, none if
\* there is no active game or its data is invalid.
sync_active_context(r, files) ==
    IF get_active_game(r) = NoGame THEN NoCtx
    ELSE build_context(get_active_game(r), files).context

\* get_active_context keeps its context if it is the one of the active game.
ContextToReturn(context, active) == context # NoCtx /\ context.game.id = active.id

\* AppState._infer_name_from_data: the title of Game.ini.
infer_name_from_data(folder) == FolderTitle(folder)

\* AppState.register_exe for an executable that is there: what it raises, the entry it returns, the registry and
\* the fields of the application state it leaves.
register_exe(r, files, exe, name, make_active) ==
    LET data == FolderOf(exe)
        i == FirstIndex(r.games, LAMBDA g : g.exe_path = exe \/ g.data_path = data)
        final_name == IF name # NoName /\ Strip(name) # <<>> THEN Strip(name)
                      ELSE IF i # 0 /\ ~is_generic_name(r.games[i].name) THEN r.games[i].name
                      ELSE infer_name_from_data(data)
        upserted == upsert_game(r, exe, data, final_name)
        cover_image == select_cover_image(data)
        covered == IF Strip(upserted.entry.cover_image) = <<>> /\ cover_image # <<>>
                   THEN update_game(upserted.reg, upserted.entry.id, NoName, TRUE, cover_image)
                   ELSE [raised |-> "none", reg |-> upserted.reg, entry |-> upserted.entry]
        final == IF make_active THEN set_active_game(covered.reg, covered.entry.id)
                 ELSE covered.reg
    IN  IF data \notin files
        THEN [raised |-> "GameDataInvalidError", entry |-> NoGame, reg |-> r,
              synced |-> FALSE, last_prepare_result |-> "None"]
        ELSE [raised |-> "none", entry |-> covered.entry, reg |-> final,
              synced |-> TRUE, last_prepare_result |-> PrepareStatus(data)]

\* A select_game that makes the game the active one before it builds its context.
select_game_ActivateFirst(r, context, files, game_id) ==
    IF get_game(r, game_id) = NoGame
    THEN [raised |-> "NotFoundError", reg |-> r, context |-> context, returned |-> NoCtx]
    ELSE IF build_context(get_game(r, game_id), files).raised # "none"
    THEN [raised |-> "GameDataInvalidError", reg |-> set_active_game(r, game_id),
          context |-> context, returned |-> NoCtx]
    ELSE [raised |-> "none", reg |-> set_active_game(r, game_id),
          context |-> build_context(get_game(r, game_id), files).context,
          returned |-> build_context(get_game(r, game_id), files).context]

\* AppState.select_game: the context is built first, and only then does the
\* game become the active one and the context the one of the application.
select_game(r, context, files, game_id) ==
    IF get_game(r, game_id) = NoGame
    THEN [raised |-> "NotFoundError", reg |-> r, context |-> context, returned |-> NoCtx]
    ELSE IF build_context(get_game(r, game_id), files).raised # "none"
    THEN [raised |-> "GameDataInvalidError", reg |-> r, context |-> context,
          returned |-> NoCtx]
    ELSE [raised |-> "none", reg |-> set_active_game(r, game_id),
          context |-> build_context(get_game(r, game_id), files).context,
          returned |-> build_context(get_game(r, game_id), files).context]

\* A get_active_context that reports no active game whenever it has no context.
get_active_context_NoRebuild(r, context, files) ==
    IF context = NoCtx
    THEN [raised |-> "NoActiveGameError", context |-> context, returned |-> NoCtx]
    ELSE [raised |-> "none", context |-> context, returned |-> context]

\* AppState.get_active_context
get_active_context(r, context, files) ==
    IF get_active_game(r) = NoGame
    THEN [raised |-> "NoActiveGameError", context |-> context, returned |-> NoCtx]
    ELSE IF ContextToReturn(context, get_active_game(r))
    THEN [raised |-> "none", context |-> context, returned |-> context]
    ELSE IF build_context(get_active_game(r), files).raised # "none"
    THEN [raised |-> "GameDataInvalidError", context |-> context, returned |-> NoCtx]
    ELSE [raised |-> "none", context |-> build_context(get_active_game(r), files).context,
          returned |-> build_context(get_active_game(r), files).context]

(***************************************************************************)
(* The application state as a state machine                                *)
(***************************************************************************)
\* The ids a caller may name: those the registry hands out.
GameIds == 1..MaxIds

\* The names given when a game is registered, and when it is updated.
RegisterNames == {NoName, NameGame}

UpdateNames == {NoName, NameBlank, NameGame}

NoCall == [op |-> "none", id |-> NoId, raised |-> "none", returned |-> NoCtx]

\* AppState.__init__ over a new registry file.
AppInit ==
    /\ reg = [games |-> <<>>, active |-> NoId, next_id |-> 1]
    /\ mapinfos = {}
    /\ app = [context |-> sync_active_context([games |-> <<>>, active |-> NoId,
                                               next_id |-> 1], {}),
              last_prepare_result |-> "None"]
    /\ lastCall = NoCall

\* The data of a game is put in place.
WriteMapInfos ==
    \E folder \in Folders \ mapinfos :
        /\ mapinfos' = mapinfos \cup {folder}
        /\ lastCall' = NoCall
        /\ UNCHANGED <<reg, app>>

\* The data of a game is taken away.
RemoveMapInfos ==
    \E folder \in mapinfos :
        /\ mapinfos' = mapinfos \ {folder}
        /\ lastCall' = NoCall
        /\ UNCHANGED <<reg, app>>

Registered(exe, name, make_active) == register_exe(reg, mapinfos, exe, name, make_active)

RegisterExe ==
    \E exe \in Exes, name \in RegisterNames, make_active \in BOOLEAN :
        /\ Registered(exe, name, make_active).reg.next_id <= MaxIds + 1
        /\ reg' = Registered(exe, name, make_active).reg
        /\ app' = [context |-> IF Registered(exe, name, make_active).synced
                               THEN sync_active_context(reg', mapinfos)
                               ELSE app.context,
                   last_prepare_result |->
                       Registered(exe, name, make_active).last_prepare_result]
        /\ lastCall' = [op |-> "register_exe", id |-> NoId,
                        raised |-> Registered(exe, name, make_active).raised,
                        returned |-> NoCtx]
        /\ UNCHANGED mapinfos

Selected(game_id) == select_game(reg, app.context, mapinfos, game_id)

SelectGame ==
    \E game_id \in GameIds :
        /\ reg' = Selected(game_id).reg
        /\ app' = [app EXCEPT !.context = Selected(game_id).context]
        /\ lastCall' = [op |-> "select_game", id |-> game_id,
                        raised |-> Selected(game_id).raised,
                        returned |-> Selected(game_id).returned]
        /\ UNCHANGED mapinfos

Updated(game_id, name, cover_provided) ==
    update_game(reg, game_id, name, cover_provided, <<>>)

\* AppState.update_game: the context is built anew if the game is the active one.
UpdateGame ==
    \E game_id \in GameIds, name \in UpdateNames, cover_provided \in BOOLEAN :
        /\ reg' = Updated(game_id, name, cover_provided).reg
        /\ app' = [app EXCEPT !.context =
                      IF /\ Updated(game_id, name, cover_provided).raised = "none"
                         /\ reg'.active = game_id
                      THEN sync_active_context(reg', mapinfos) ELSE @]
        /\ lastCall' = [op |-> "update_game", id |-> game_id,
                        raised |-> Updated(game_id, name, cover_provided).raised,
                        returned |-> NoCtx]
        /\ UNCHANGED mapinfos

\* AppState.delete_game
DeleteGame ==
    \E game_id \in GameIds :
        /\ reg' = delete_game(reg, game_id).reg
        /\ app' = [app EXCEPT !.context =
                      IF delete_game(reg, game_id).raised = "none"
                      THEN sync_active_context(reg', mapinfos) ELSE @]
        /\ lastCall' = [op |-> "delete_game", id |-> game_id,
                        raised |-> delete_game(reg, game_id).raised,
                        returned |-> NoCtx]
        /\ UNCHANGED mapinfos

Got == get_active_context(reg, app.context, mapinfos)

GetActiveContext ==
    /\ app' = [app EXCEPT !.context = Got.context]
    /\ lastCall' = [op |-> "get_active_context", id |-> NoId,
                    raised |-> Got.raised,
                    returned |-> Got.returned]
    /\ UNCHANGED <<reg, mapinfos>>

AppNext ==
    \/ WriteMapInfos
    \/ RemoveMapInfos
    \/ RegisterExe
    \/ SelectGame
    \/ UpdateGame
    \/ DeleteGame
    \/ GetActiveContext

(***************************************************************************)
(* Claims on the application state                                         *)
(***************************************************************************)
\* The map infos of a game of the registry cannot be located.
Unlocatable(game_id) ==
    /\ get_game(reg, game_id) # NoGame
    /\ get_game(reg, game_id).data_path \notin mapinfos

\* C19: select_game for a registered game whose map-info file cannot be
\* located fails with GameDataInvalidError, and the call leaves the active
\* game id of the registry and the active context of the application as
\* they were.
C19_FailedSelectChangesNothing ==
    [][(lastCall'.op = "select_game" /\ Unlocatable(lastCall'.id))
          => /\ lastCall'.raised = "GameDataInvalidError"
             /\ reg'.active = reg.active
             /\ app'.context = app.context]_vars

\* C19 witness: the selection of a registered game without map infos has
\* failed while another game is the active one and has its context.
C19_Witness ==
    /\ lastCall.op = "select_game"
    /\ lastCall.raised = "GameDataInvalidError"
    /\ Unlocatable(lastCall.id)
    /\ reg.active \notin {NoId, lastCall.id}
    /\ app.context # NoCtx
    /\ app.context.game.id = reg.active

C20_NoActiveGameReached ==
    lastCall.op = "get_active_context" /\ lastCall.raised = "NoActiveGameError"

C20_InvalidDataReached ==
    lastCall.op = "get_active_context" /\ lastCall.raised = "GameDataInvalidError"

(***************************************************************************)
(* The registry on its own: GameRegistry called directly                   *)
(***************************************************************************)
\* The data directories a caller may name, whatever the executable.
DataPaths == Folders

\* name=None, and a name given.
UpsertNames == {<<>>, FolderTitle(1)}

\* GameRegistry.clear_active_game
clear_active_game(r) == [r EXCEPT !.active = NoId]

\* The registry file after somebody else wrote it: the active id names no
\* game, or the first game has lost its exe_path.
FileEdits == {"dangling_active", "blank_exe"}

EditedFile(r, edit) ==
    IF edit = "dangling_active" THEN [r EXCEPT !.active = MaxIds + 1]
    ELSE IF r.games = <<>> THEN r
    ELSE [r EXCEPT !.games[1].exe_path = 0]

\* GameRegistry._normalize_data: the entries without an id, an exe_path or a
\* data_path are dropped, and an active id that names none of the games left
\* becomes "".
normalize_data(raw) ==
    LET games == SelectSeq(raw.games,
                    LAMBDA g : g.id # NoId /\ g.exe_path # 0 /\ g.data_path # 0)
    IN  [raw EXCEPT !.games = games,
                    !.active = IF \E i \in DOMAIN games : games[i].id = raw.active
                               THEN raw.active ELSE NoId]

Upserted(exe, data, name) == upsert_game(reg, exe, data, name)

\* upsert_game(exe_path, data_path, name)
RegUpsert ==
    \E exe \in Exes, data \in DataPaths, name \in UpsertNames :
        /\ Upserted(exe, data, name).reg.next_id <= MaxIds + 1
        /\ reg' = Upserted(exe, data, name).reg
        /\ lastCall' = [op |-> "upsert_game", id |-> Upserted(exe, data, name).entry.id,
                        raised |-> "none", returned |-> NoCtx]
        /\ UNCHANGED <<mapinfos, app>>

\* update_game(game_id, name=..., cover_image=...)
RegUpdate ==
    \E game_id \in GameIds, name \in UpdateNames, cover_given \in BOOLEAN :
        /\ reg' = update_game(reg, game_id, name, cover_given, <<>>).reg
        /\ lastCall' = [op |-> "update_game", id |-> game_id,
                        raised |-> update_game(reg, game_id, name, cover_given, <<>>).raised,
                        returned |-> NoCtx]
        /\ UNCHANGED <<mapinfos, app>>

\* delete_game(game_id)
RegDelete ==
    \E game_id \in GameIds :
        /\ reg' = delete_game(reg, game_id).reg
        /\ lastCall' = [op |-> "delete_game", id |-> game_id,
                        raised |-> delete_game(reg, game_id).raised, returned |-> NoCtx]
        /\ UNCHANGED <<mapinfos, app>>

\* set_active_game(game_id): NotFoundError from get_game for an unknown id.
RegSetActive ==
    \E game_id \in GameIds :
        /\ reg' = IF get_game(reg, game_id) = NoGame THEN reg
                  ELSE set_active_game(reg, game_id)
        /\ lastCall' = [op |-> "set_active_game", id |-> game_id,
                        raised |-> IF get_game(reg, game_id) = NoGame
                                   THEN "NotFoundError" ELSE "none",
                        returned |-> NoCtx]
        /\ UNCHANGED <<mapinfos, app>>

\* clear_active_game()
RegClearActive ==
    /\ reg' = clear_active_game(reg)
    /\ lastCall' = [op |-> "clear_active_game", id |-> NoId, raised |-> "none",
                    returned |-> NoCtx]
    /\ UNCHANGED <<mapinfos, app>>

\* GameRegistry(path) over the file of the registry after an edit.
RegReopen ==
    \E edit \in FileEdits :
        /\ reg' = normalize_data(EditedFile(reg, edit))
        /\ lastCall' = [op |-> "open", id |-> NoId, raised |-> "none", returned |-> NoCtx]
        /\ UNCHANGED <<mapinfos, app>>

RegNext ==
    \/ RegUpsert
    \/ RegUpdate
    \/ RegDelete
    \/ RegSetActive
    \/ RegClearActive
    \/ RegReopen

(***************************************************************************)
(* Claims on the registry                                                  *)
(***************************************************************************)
Ids(r) == {r.games[i].id : i \in DOMAIN r.games}

ActiveRegistered == reg.active = NoId \/ reg.active \in Ids(reg)

Succeeded(op) == lastCall'.op = op /\ lastCall'.raised = "none"

\* What the calls do to the active id.
ActiveMoves ==
    /\ (Succeeded("upsert_game") /\ reg.active = NoId)
          => reg'.active = lastCall'.id /\ lastCall'.id \in Ids(reg')
    /\ (Succeeded("delete_game") /\ reg.active = lastCall'.id /\ reg'.games # <<>>)
          => reg'.active = reg'.games[1].id
    /\ (Succeeded("delete_game") /\ reg'.games = <<>>) => reg'.active = NoId
    /\ lastCall'.raised # "none" => reg' = reg

C21_EmptiedReached ==
    lastCall.op = "delete_game" /\ lastCall.raised = "none" /\ reg.games = <<>>

C21_FailedCallReached == lastCall.raised = "NotFoundError" /\ reg.games # <<>>

\* C29: no two entries of the registry share an exe_path, a data_path or an
\* id.
C29_EntriesUnique ==
    \A i, j \in DOMAIN reg.games :
        i # j => /\ reg.games[i].exe_path # reg.games[j].exe_path
                 /\ reg.games[i].data_path # reg.games[j].data_path
                 /\ reg.games[i].id # reg.games[j].id

\* The ids alone are unique.
C29_IdsUnique ==
    \A i, j \in DOMAIN reg.games : i # j => reg.games[i].id # reg.games[j].id

(***************************************************************************)
(* The request handlers of the server (server.py) over the interpreter     *)
(***************************************************************************)
MaxListLen == 3

MaxMapEvents == 2

\* A command with an indent.
CommandAt(code, indent, parameters) ==
    DictOf(<< <<"code", VInt(code)>>, <<"indent", VInt(indent)>>,
              <<"parameters", parameters>> >>)

\* A show-text command whose parameters are null.
BrokenText == CommandAt(101, 0, VNone)

\* len(p) of _translate for the show-text command raises TypeError when the
\* parameters are no list.
translate_raises(code, p) == code = VInt(101) /\ p.t # "list"

command_raises(cmd) ==
    translate_raises(Get(cmd, "code", VInt(0)), Get(cmd, "parameters", VList(<<>>)))

\* _interpret_commands raises on the first command whose translation does.
commands_raise(cmd_list) == \E i \in DOMAIN cmd_list.items : command_raises(cmd_list.items[i])

\* interpret_event raises if the commands of one of its pages do.
event_raises(evt) ==
    \E i \in DOMAIN Get(evt, "pages", VList(<<>>)).items :
        /\ evt.map[VStr("pages")].items[i] # VNone
        /\ commands_raise(Get(evt.map[VStr("pages")].items[i], "list", VList(<<>>)))

\* The commands of a common event: the end markers and the sub-step of a
\* movement route at indent 1, a text, a loop, a random battle at indent 2,
\* and a text that cannot be translated.
MarkerOpcodes == SilentOpcodes \cup {505}

ListCommands ==
    {CommandAt(code, 1, VList(<<>>)) : code \in MarkerOpcodes}
        \cup {ShowText, CommandAt(112, 0, VList(<<>>)),
              CommandAt(301, 2, Ints(<<2, 0, 0, 1>>)), BrokenText}

CommandLists == UNION {[1..n -> ListCommands] : n \in 0..MaxListLen}

\* The events of a map: a random battle, a text, and an event that cannot
\* be interpreted.
MapEvents == {EventOf(<<RandomBattle>>), EventOf(<<ShowText>>), EventOf(<<BrokenText>>)}

MapEventLists == UNION {[1..n -> MapEvents] : n \in 0..MaxMapEvents}

\* The file of a map: its encounters, told apart by their weight, and its
\* events.
MapFile(map_id, events) ==
    DictOf(<< <<"encounterStep", VInt(30)>>,
              <<"encounterList", VList(<<
                  DictOf(<< <<"troopId", VInt(1)>>, <<"weight", VInt(map_id)>> >>) >>)>>,
              <<"events", VList(events)>> >>)

NoRequest == [req |-> [kind |-> "none"], status |-> 0, body |-> VNone]

SrvInit == srv = NoRequest /\ thr = << >>

\* The context _handle_map sets before it interprets the events.
map_context(map_id, map_data) ==
    set_map_context(VInt(map_id), VText(get_map_name(VInt(map_id))), map_data)

\* The events of a map as _handle_map interprets them, in its context.
map_events(self, events) == VList([i \in DOMAIN events |-> interpret_event(self, events[i])])

\* _handle_map for a map whose file is there: the context is set, the events
\* are interpreted and the context is cleared; an exception of
\* interpret_event leaves the handler, and do_GET answers it with status 500.
HandleMap ==
    \E map_id \in CtxMapIds, events \in MapEventLists :
        /\ srv = NoRequest
        /\ IF \E i \in DOMAIN events : event_raises(events[i])
           THEN /\ itp' = [itp EXCEPT !.self = map_context(map_id, MapFile(map_id, events))]
                /\ srv' = [req |-> [kind |-> "map", map_id |-> map_id, events |-> events],
                           status |-> 500, body |-> VNone]
           ELSE /\ itp' = [itp EXCEPT !.self = clear_map_context]
                /\ srv' = [req |-> [kind |-> "map", map_id |-> map_id, events |-> events],
                           status |-> 200,
                           body |-> map_events(map_context(map_id, MapFile(map_id, events)),
                                               events)]
        /\ UNCHANGED thr

\* _handle_map for a map whose file cannot be loaded: status 400.
HandleMissingMap ==
    \E map_id \in CtxMapIds :
        /\ srv = NoRequest
        /\ srv' = [req |-> [kind |-> "map", map_id |-> map_id, events |-> <<>>],
                   status |-> 400, body |-> VNone]
        /\ UNCHANGED <<itp, thr>>

\* _handle_common_event: the commands of the event, with the battles of a
\* story marked.
HandleCommonEvent ==
    \E cmds \in CommandLists :
        /\ srv = NoRequest
        /\ srv' = IF commands_raise(VList(cmds))
                  THEN [req |-> [kind |-> "common_event", list |-> cmds],
                        status |-> 500, body |-> VNone]
                  ELSE [req |-> [kind |-> "common_event", list |-> cmds],
                        status |-> 200,
                        body |-> page_commands(interpret_commands(itp.self, VList(cmds)),
                                               is_story_page(VList(cmds)))]
        /\ UNCHANGED <<itp, thr>>

\* The response is sent, and the server takes the next request.
Send ==
    /\ srv # NoRequest
    /\ srv' = NoRequest
    /\ UNCHANGED <<itp, thr>>

SrvNext ==
    \/ HandleMap
    \/ HandleMissingMap
    \/ HandleCommonEvent
    \/ Send

(***************************************************************************)
(* Claims on the handlers                                                  *)
(***************************************************************************)
\* A common event has been answered with its lines.
CommonEventAnswered == srv.req.kind = "common_event" /\ srv.status = 200

\* The line a command of the request gives when it is interpreted alone:
\* a list of no line or of one.
LineOf(i) == interpret_commands(itp.self, VList(<<srv.req.list[i]>>)).items

\* The lines of the commands of the request, each interpreted alone, one
\* after the other and marked as the handler marks them.
LinesOneByOne ==
    page_commands(VList(Concat([i \in DOMAIN srv.req.list |-> LineOf(i)])),
                  is_story_page(VList(srv.req.list))).items

\* C22: _interpret_commands translates in one pass and in order: a command
\* gives no line or one, so there are no more lines than commands; the lines
\* are those of the commands interpreted alone, in the order of the commands;
\* and a line has the indent of its command.
C22_OnePassInOrder ==
    CommonEventAnswered
        => /\ \A i \in DOMAIN srv.req.list : Len(LineOf(i)) <= 1
           /\ Len(srv.body.items) <= Len(srv.req.list)
           /\ srv.body.items = LinesOneByOne
           /\ \A i \in DOMAIN srv.req.list :
                LineOf(i) # <<>>
                    => Get(LineOf(i)[1], "indent", VNone) = Get(srv.req.list[i], "indent", VNone)

\* C22 witness: three commands gave two lines of different indents, with a
\* command without a line before the second.
C22_Witness ==
    /\ CommonEventAnswered
    /\ Len(srv.req.list) = 3
    /\ Len(srv.body.items) = 2
    /\ LineOf(2) = <<>>
    /\ Get(srv.body.items[1], "indent", VNone) # Get(srv.body.items[2], "indent", VNone)
    /\ Get(srv.body.items[1], "text", VNone) # Get(srv.body.items[2], "text", VNone)

\* The commands of the request that are no end marker and no sub-step of a
\* movement route.
Unmarked(markers) ==
    {i \in DOMAIN srv.req.list : Get(srv.req.list[i], "code", VInt(0)).v \notin markers}

\* C23: a command whose opcode is one of 0, 404, 412, 413, 604 or 505 gives
\* no line: there are no more lines than other commands.
C23_MarkersGiveNoLine ==
    CommonEventAnswered => Len(srv.body.items) <= Cardinality(Unmarked(MarkerOpcodes))

\* The same without opcode 413, which holds.
C23_MarkersBut413GiveNoLine ==
    CommonEventAnswered => Len(srv.body.items) <= Cardinality(Unmarked(MarkerOpcodes \ {413}))

\* C27: after the handler of a map request, whether it answered or failed,
\* the interpreter has no map context.
C27_ContextClearedAfterMap == srv.req.kind = "map" => itp.self = NoContext

\* The encounter references of the lines of a response.
EncounterRefs ==
    UNION {{ref \in {Get(srv.body.items[j], "refs", VList(<<>>)).items[k] :
                        k \in DOMAIN Get(srv.body.items[j], "refs", VList(<<>>)).items} :
                Get(ref, "kind", VNone) = VText(<<101, 110, 99, 111, 117, 110, 116, 101, 114>>)} :
           j \in DOMAIN srv.body.items}

\* A common event is answered with an encounter reference that carries the
\* id of a map.
C27_StaleReferenceReached ==
    /\ CommonEventAnswered
    /\ \E ref \in EncounterRefs : Get(ref, "mapId", VNone) \in {VInt(1), VInt(2)}

(***************************************************************************)
(* Queries: the enemies of a troop and the tree of the maps                *)
(***************************************************************************)
MaxMembers == 3
MaxEnemyId == 2
MaxInfos == 2
MaxTreeId == 2

NoQuery == [op |-> "none", input |-> VNone, output |-> VNone]

QryInit == query = NoQuery

\* A member of a troop.
Member(enemy_id, hidden) == DictOf(<< <<"enemyId", VInt(enemy_id)>>, <<"hidden", VBool(hidden)>> >>)

\* The members of the troops of the queries: of an enemy or of none (id 0),
\* hidden or not, a member without an enemy id, and a null.
Members ==
    {Member(enemy_id, hidden) : enemy_id \in 0..MaxEnemyId, hidden \in BOOLEAN}
        \cup {DictOf(<< <<"hidden", VBool(TRUE)>> >>), VNone}

\* The troops of the queries: with up to MaxMembers members, with null for
\* the members, and no troop.
Troops ==
    {DictOf(<< <<"id", VInt(1)>>, <<"members", VList(members)>> >>) :
        members \in UNION {[1..n -> Members] : n \in 0..MaxMembers}}
        \cup {DictOf(<< <<"id", VInt(1)>>, <<"members", VNone>> >>), VNone}

\* _make_troop_ref counts the enemies of a troop.
TroopRef ==
    /\ query = NoQuery
    /\ \E troop \in Troops :
        query' = [op |-> "troop_ref", input |-> troop, output |-> count_enemies(troop)]

\* A record of MapInfos with the keys that are given.
MapInfo(id, parent_id, order) ==
    DictOf(SelectSeq(<< <<"id", id>>, <<"parentId", parent_id>>, <<"order", order>>,
                        <<"expanded", VBool(FALSE)>> >>,
                     LAMBDA pair : pair[2] # VNone))

\* The ids and the parent ids of the records of the queries; VNone for a
\* key that is absent, which get_map_tree reads as 0.
TreeIds == {VNone} \cup {VInt(n) : n \in 1..MaxTreeId}

\* The records of MapInfos of the queries, and the null at the head of the
\* file.
MapInfoRecords ==
    {MapInfo(id, parent_id, order) :
        id \in TreeIds, parent_id \in TreeIds, order \in {VNone, VInt(1)}} \cup {VNone}

MapInfoLists == UNION {[1..n -> MapInfoRecords] : n \in 0..MaxInfos}

\* build_tree is entered at most this often inside itself for records that
\* form a tree under 0; Python gives up at its recursion limit.
RecursionLimit == MaxInfos + 1

RecursionError == [t |-> "raised", error |-> "RecursionError"]

\* info_dict.get(mid, {}): the last record of an id.
info_of(records, mid) ==
    LET with == {i \in DOMAIN records : Get(records[i], "id", VInt(0)) = mid}
    IN  IF with = {} THEN DictOf(<<>>)
        ELSE records[CHOOSE i \in with : \A j \in with : j <= i]

\* list.sort(key=...) of Python is stable: pairs <<key, id>> by their keys,
\* equal keys in the order they had.
RECURSIVE StableSorted(_)
StableSorted(pairs) ==
    IF pairs = <<>> THEN <<>>
    ELSE LET first == CHOOSE i \in DOMAIN pairs :
                        \A j \in DOMAIN pairs :
                            \/ pairs[i][1] < pairs[j][1]
                            \/ pairs[i][1] = pairs[j][1] /\ i <= j
         IN  <<pairs[first][2]>>
                \o StableSorted([j \in 1..(Len(pairs) - 1) |->
                                    IF j < first THEN pairs[j] ELSE pairs[j + 1]])

\* children_map.get(parent_id, []): the ids of the records of a parent as
\* they come, then sorted by the order of the record of the id.
children_of(records, parent_id) ==
    StableSorted(
        [i \in DOMAIN SelectSeqOf(records,
                        LAMBDA info : Get(info, "parentId", VInt(0)) = parent_id) |->
            LET mid == Get(SelectSeqOf(records,
                            LAMBDA info : Get(info, "parentId", VInt(0)) = parent_id)[i],
                           "id", VInt(0))
            IN  <<Get(info_of(records, mid), "order", VInt(0)).v, mid>>])

\* A node of the tree.
TreeNode(records, cid, children) ==
    DictOf(<< <<"id", cid>>,
              <<"name", Get(info_of(records, cid), "name",
                            VText(<<22320, 22270, 35>> \o Fmt(cid)))>>,
              <<"children", children>> >>)

\* The nodes of the subtrees, or the error of one of them.
NodesOf(records, kids, subtrees) ==
    IF \E i \in DOMAIN kids : subtrees[i] = RecursionError THEN RecursionError
    ELSE VList([i \in DOMAIN kids |-> TreeNode(records, kids[i], subtrees[i])])

\* build_tree of get_map_tree, depth calls deep.
RECURSIVE build_tree(_, _, _)
build_tree(records, parent_id, depth) ==
    IF depth > RecursionLimit THEN RecursionError
    ELSE NodesOf(records, children_of(records, parent_id),
                 [i \in DOMAIN children_of(records, parent_id) |->
                    build_tree(records, children_of(records, parent_id)[i], depth + 1)])

\* get_map_tree
get_map_tree(infos) ==
    IF infos.t # "list" THEN VList(<<>>)
    ELSE build_tree(SelectSeqOf(infos.items, IsDict), VInt(0), 1)

\* get_map_tree on a list of records.
MapTree ==
    /\ query = NoQuery
    /\ \E infos \in MapInfoLists :
        query' = [op |-> "get_map_tree", input |-> VList(infos),
                  output |-> get_map_tree(VList(infos))]

\* The caller has what the query gave.
Answered == query # NoQuery /\ query' = NoQuery

QryNext == TroopRef \/ MapTree \/ Answered

(***************************************************************************)
(* Claims on the queries                                                   *)
(***************************************************************************)
\* The members of the troop of the query as the file has them.
RawMembers == Or(Get(query.input, "members", VNone), VList(<<>>)).items

\* The members that name an enemy.
Naming ==
    {i \in DOMAIN RawMembers :
        /\ IsDict(RawMembers[i])
        /\ Get(RawMembers[i], "enemyId", VInt(0)) # VInt(0)}

RECURSIVE SumOfCounts(_)
SumOfCounts(enemies) ==
    IF enemies = <<>> THEN 0
    ELSE Get(Head(enemies), "count", VNone).v + SumOfCounts(Tail(enemies))

\* C24: the enemy list of a troop reference has one entry for every enemy id
\* other than 0 among the members, in strictly ascending order of the ids;
\* count is the number of members of the id, hidden the number of those that
\* are hidden, and the counts add up to the number of members with an id
\* other than 0.
C24_EnemiesCounted ==
    (query.op = "troop_ref" /\ query.input # VNone)
        => LET enemies == query.output.items
               id(j) == Get(enemies[j], "id", VNone)
               of(j) == {i \in Naming : Get(RawMembers[i], "enemyId", VInt(0)) = id(j)}
           IN  /\ {id(j) : j \in DOMAIN enemies}
                    = {Get(RawMembers[i], "enemyId", VInt(0)) : i \in Naming}
               /\ \A j, k \in DOMAIN enemies : j < k => id(j).v < id(k).v
               /\ \A j \in DOMAIN enemies :
                    /\ Get(enemies[j], "count", VNone) = VInt(Cardinality(of(j)))
                    /\ Get(enemies[j], "hidden", VNone)
                         = VInt(Cardinality({i \in of(j) :
                                    Get(RawMembers[i], "hidden", VNone) = VBool(TRUE)}))
                    /\ 0 <= Get(enemies[j], "hidden", VNone).v
                    /\ Get(enemies[j], "hidden", VNone).v <= Get(enemies[j], "count", VNone).v
               /\ SumOfCounts(enemies) = Cardinality(Naming)

\* C24 witness: a troop of three members, two of one enemy of which one is
\* hidden, and one of no enemy, gave one entry.
C24_Witness ==
    /\ query.op = "troop_ref"
    /\ query.input # VNone
    /\ Len(RawMembers) = 3
    /\ Cardinality(Naming) = 2
    /\ Len(query.output.items) = 1
    /\ Get(query.output.items[1], "count", VNone) = VInt(2)
    /\ Get(query.output.items[1], "hidden", VNone) = VInt(1)

\* C24 witness of the order: the members name the larger id first.
C24_SortedReached ==
    /\ query.op = "troop_ref"
    /\ query.input # VNone
    /\ Len(RawMembers) = 2
    /\ RawMembers[1] = Member(2, FALSE)
    /\ RawMembers[2] = Member(1, FALSE)
    /\ Len(query.output.items) = 2

\* C28: get_map_tree returns a tree for every list of records.
C28_ReturnsTree == query.op = "get_map_tree" => query.output # RecursionError

\* The ids of the nodes of a list of trees, one after the other.
RECURSIVE NodeIds(_)
NodeIds(nodes) ==
    IF nodes = <<>> THEN <<>>
    ELSE <<Get(Head(nodes), "id", VNone)>>
            \o NodeIds(Get(Head(nodes), "children", VNone).items)
            \o NodeIds(Tail(nodes))

\* C28, second part: no id is the id of two nodes of the tree.
C28_EachIdOnce ==
    (query.op = "get_map_tree" /\ query.output # RecursionError)
        => \A i, j \in DOMAIN NodeIds(query.output.items) :
                NodeIds(query.output.items)[i] = NodeIds(query.output.items)[j] => i = j

\* A tree of two levels is returned, the sibling of the larger order last.
C28_TreeReached ==
    /\ query.op = "get_map_tree"
    /\ query.output # RecursionError
    /\ Len(query.output.items) = 1
    /\ Len(Get(query.output.items[1], "children", VNone).items) = 1

(***************************************************************************)
(* One session of an MV loader; callers of load_json side by side          *)
(***************************************************************************)
MaxCallers == 2

Callers == 1..MaxCallers

\* A JSON file is written before the loader is made; the directory does not
\* change during the session.
PutJsonFile == dl.state = "none" /\ WriteJsonFile

SessionNext == PutJsonFile \/ NewMvLoader \/ Load \/ Exists

\* The steps of load_json, each of which runs as a whole: the test of the
\* cache, _load_mv_json, and the assignment to the cache.  All callers that
\* are under way load the same file name.
CallLoad ==
    /\ dl.state = "ready"
    /\ dl.engine = "mv"
    /\ \E c \in Callers \ DOMAIN thr, filename \in JsonNames :
        /\ \A d \in DOMAIN thr : thr[d].filename = filename
        /\ thr' = Put(thr, c, [pc |-> "check", filename |-> filename, value |-> VNone])
    /\ UNCHANGED <<srv, dlVars, arcVars>>

\* cache_key in self._cache: a hit returns the entry.
CheckCache ==
    /\ \E c \in DOMAIN thr :
        /\ thr[c].pc = "check"
        /\ thr' = [thr EXCEPT ![c] =
                    IF cache_key(thr[c].filename) \in DOMAIN dl.cache
                    THEN [@ EXCEPT !.pc = "done",
                                   !.value = cache_value(dl.cache[cache_key(thr[c].filename)])]
                    ELSE [@ EXCEPT !.pc = "compute"]]
    /\ UNCHANGED <<srv, dlVars, arcVars>>

\* value = self._load_mv_json(filename)
ReadFile ==
    /\ \E c \in DOMAIN thr :
        /\ thr[c].pc = "compute"
        /\ thr' = [thr EXCEPT ![c] = [@ EXCEPT !.pc = "store",
                                               !.value = load_mv_json(disk, thr[c].filename)]]
    /\ UNCHANGED <<srv, dlVars, arcVars>>

\* self._cache[cache_key] = ...
StoreValue ==
    /\ \E c \in DOMAIN thr :
        /\ thr[c].pc = "store"
        /\ dl' = [dl EXCEPT !.cache = Put(dl.cache, cache_key(thr[c].filename),
                                          cached(thr[c].value))]
        /\ thr' = [thr EXCEPT ![c] = [@ EXCEPT !.pc = "done"]]
    /\ UNCHANGED <<srv, disk, firsts, lastLoad, arcVars>>

\* The caller has its value.
ReturnValue ==
    /\ \E c \in DOMAIN thr :
        /\ thr[c].pc = "done"
        /\ thr' = [d \in DOMAIN thr \ {c} |-> thr[d]]
    /\ UNCHANGED <<srv, dlVars, arcVars>>

RaceNext ==
    \/ PutJsonFile /\ UNCHANGED srvVars
    \/ NewMvLoader /\ UNCHANGED srvVars
    \/ CallLoad
    \/ CheckCache
    \/ ReadFile
    \/ StoreValue
    \/ ReturnValue

\* C30: in a session over a directory that does not change, load_json of a
\* name whose file is there and parses returns what the file holds, whatever
\* was loaded before.
C30_LoadReturnsContent ==
    (/\ lastLoad.op = "load_json"
     /\ dl.engine = "mv"
     /\ lastLoad.filename \in DOMAIN disk
     /\ json_load(disk[lastLoad.filename]).raised = "none")
        => lastLoad.value = json_load(disk[lastLoad.filename]).value

\* C30, second part: load_json returns None only for a name whose file is
\* not there, does not parse, or holds null.
C30_AbsentOnlyIfMissing ==
    (/\ lastLoad.op = "load_json"
     /\ dl.engine = "mv"
     /\ lastLoad.value = VNone)
        => load_mv_json(disk, lastLoad.filename) = VNone

\* The same for the first load among the names that are equal but for the
\* case of their letters, which holds.
C30_FirstLoadReturnsContent ==
    (/\ lastLoad.op = "load_json"
     /\ dl.engine = "mv"
     /\ ~lastLoad.later)
        => lastLoad.value = load_mv_json(disk, lastLoad.filename)

\* The callers that have a value.
WithValue == {c \in DOMAIN thr : thr[c].pc \in {"store", "done"}}

\* C26: callers that load the same file name side by side, the file being
\* the same throughout, all get the same value; the entry of the cache is
\* that value once a caller is through, and at no time something else than
\* a whole value.
C26_SameValueForAll ==
    /\ \A c, d \in WithValue : thr[c].value = thr[d].value
    /\ \A c \in DOMAIN thr :
        thr[c].pc = "done"
            => /\ cache_key(thr[c].filename) \in DOMAIN dl.cache
               /\ cache_value(dl.cache[cache_key(thr[c].filename)]) = thr[c].value
    /\ \A key \in DOMAIN dl.cache :
        \E filename \in JsonNames :
            /\ cache_key(filename) = key
            /\ dl.cache[key] = cached(load_mv_json(disk, filename))

\* C26 witness: two callers have both read the file, one has stored what it
\* read, and the other has still to store.
C26_Witness ==
    \E c, d \in DOMAIN thr :
        /\ thr[c].pc = "done"
        /\ thr[d].pc = "store"
        /\ thr[c].value # VNone
        /\ cache_key(thr[c].filename) \in DOMAIN dl.cache

(***************************************************************************)
(* Two map requests side by side                                           *)
(***************************************************************************)
\* The events of the map of a request: random battles.
RequestEvents == [i \in 1..MaxMapEvents |-> EventOf(<<RandomBattle>>)]

\* The interpreter every request uses, whatever the request owns.
interpreter_of_Shared(request, shared_self) == shared_self

\* ctx.interpreter of a request: the one interpreter of the game context, or
\* an interpreter of the request's own.
interpreter_of(request, shared_self) ==
    IF request.shared THEN shared_self ELSE request.self

\* A request for a map begins while the request for the other map may be
\* under way; both use the interpreter of the context, or both their own.
BeginMap ==
    /\ srv = NoRequest
    /\ itp.out = VNone
    /\ \E map_id \in CtxMapIds \ DOMAIN thr, shared \in BOOLEAN :
        /\ \A other \in DOMAIN thr : thr[other].shared = shared
        /\ thr' = Put(thr, map_id, [pc |-> "set", shared |-> shared, self |-> NoContext,
                                    outs |-> <<>>])
    /\ UNCHANGED <<srv, itp>>

\* set_map_context of _handle_map.  The steps of a request are taken as
\* wholes; what a switch inside a step adds is more of the same.
SetContext ==
    /\ \E map_id \in DOMAIN thr :
        /\ thr[map_id].pc = "set"
        /\ IF thr[map_id].shared
           THEN /\ itp' = [itp EXCEPT !.self = map_context(map_id, MapFile(map_id, RequestEvents))]
                /\ thr' = [thr EXCEPT ![map_id] = [@ EXCEPT !.pc = "events"]]
           ELSE /\ itp' = itp
                /\ thr' = [thr EXCEPT ![map_id] =
                            [@ EXCEPT !.pc = "events",
                                      !.self = map_context(map_id, MapFile(map_id, RequestEvents))]]
    /\ UNCHANGED srv

\* interpret_event for the next event of the map.
InterpretNext ==
    /\ \E map_id \in DOMAIN thr :
        /\ thr[map_id].pc = "events"
        /\ thr' = [thr EXCEPT ![map_id] =
                    [@ EXCEPT !.pc = IF Len(thr[map_id].outs) + 1 = MaxMapEvents
                                     THEN "clear" ELSE "events",
                              !.outs = Append(@,
                                        interpret_event(interpreter_of(thr[map_id], itp.self),
                                            RequestEvents[Len(thr[map_id].outs) + 1]))]]
    /\ UNCHANGED <<srv, itp>>

\* clear_map_context of _handle_map.
ClearContext ==
    /\ \E map_id \in DOMAIN thr :
        /\ thr[map_id].pc = "clear"
        /\ IF thr[map_id].shared
           THEN /\ itp' = [itp EXCEPT !.self = clear_map_context]
                /\ thr' = [thr EXCEPT ![map_id] = [@ EXCEPT !.pc = "done"]]
           ELSE /\ itp' = itp
                /\ thr' = [thr EXCEPT ![map_id] = [@ EXCEPT !.pc = "done",
                                                          !.self = clear_map_context]]
    /\ UNCHANGED srv

\* The response of the request is sent.
Respond ==
    /\ \E map_id \in DOMAIN thr :
        /\ thr[map_id].pc = "done"
        /\ thr' = [other \in DOMAIN thr \ {map_id} |-> thr[other]]
    /\ UNCHANGED <<srv, itp>>

ConcurrentNext == BeginMap \/ SetContext \/ InterpretNext \/ ClearContext \/ Respond

\* The battle references of an interpreted event.
RefsOfEvent(out) ==
    UNION {BattleRefs(out.map[VStr("pages")].items[k]) :
            k \in DOMAIN out.map[VStr("pages")].items}

\* The reference is the encounter reference of a map: its id and its table.
IsOfMap(ref, map_id) ==
    /\ Get(ref, "kind", VNone) = VText(<<101, 110, 99, 111, 117, 110, 116, 101, 114>>)
    /\ Get(ref, "mapId", VNone) = VInt(map_id)
    /\ Get(ref, "encounters", VNone)
        = map_context(map_id, MapFile(map_id, RequestEvents)).current_encounters

\* C25: a request that has an interpreter of its own gets, for every event
\* of its map, the encounter reference of its map, whatever the other
\* request does meanwhile.
C25_OwnInterpreterKeepsItsMap ==
    \A map_id \in DOMAIN thr :
        ~thr[map_id].shared =>
            \A k \in DOMAIN thr[map_id].outs :
                /\ RefsOfEvent(thr[map_id].outs[k]) # {}
                /\ \A ref \in RefsOfEvent(thr[map_id].outs[k]) : IsOfMap(ref, map_id)

\* C25 witness: with one interpreter for both requests, an event of map 1
\* has got the encounter reference of map 2.
C25_Witness ==
    /\ DOMAIN thr = CtxMapIds
    /\ thr[1].shared
    /\ \E k \in DOMAIN thr[1].outs : \E ref \in RefsOfEvent(thr[1].outs[k]) : IsOfMap(ref, 2)

\* With one interpreter for both requests, an event of map 1 has got no
\* reference, the other request having cleared the context.
C25_MissingReached ==
    /\ DOMAIN thr = CtxMapIds
    /\ thr[1].shared
    /\ thr[2].pc = "done"
    /\ \E k \in DOMAIN thr[1].outs : RefsOfEvent(thr[1].outs[k]) = {}

\* Both requests have an interpreter of their own, are past their first
\* event, and the context of the one is set while the other's is cleared.
C25_OwnedReached ==
    /\ DOMAIN thr = CtxMapIds
    /\ ~thr[1].shared
    /\ thr[1].outs # <<>>
    /\ thr[1].pc = "events"
    /\ thr[2].pc = "done"
    /\ thr[2].outs # <<>>

(***************************************************************************)
(* Specifications                                                          *)
(***************************************************************************)
Init == ArcInit /\ DecInit /\ ResInit /\ DlInit /\ AdInit /\ ItpInit /\ AppInit /\ SrvInit /\ QryInit

\* Archives as built, opened and read.
SpecArchive == Init /\ [][ArcNext /\ UNCHANGED <<decVars, resVars, dlVars, adVars, itpVars, appVars, srvVars, qryVars>>]_vars

\* Archives that may have lost their tail before they are opened.
SpecDamaged == Init /\ [][(ArcNext \/ Truncate) /\ UNCHANGED <<decVars, resVars, dlVars, adVars, itpVars, appVars, srvVars, qryVars>>]_vars

\* Single calls of decrypt_resource_file.
SpecDecrypt == Init /\ [][Decrypt /\ UNCHANGED <<arcVars, resVars, dlVars, adVars, itpVars, appVars, srvVars, qryVars>>]_vars

\* prepare_resources on a project tree, called repeatedly.
SpecResource == Init /\ [][ResNext /\ UNCHANGED <<arcVars, decVars, dlVars, adVars, itpVars, appVars, srvVars, qryVars>>]_vars

\* An MV loader over a data directory that changes between the calls.
SpecLoaderMv == Init /\ [][MvNext /\ UNCHANGED <<decVars, resVars, adVars, itpVars, appVars, srvVars, qryVars>>]_vars

\* A VX Ace loader over a data directory and, if supplied, a version-3 archive.
SpecLoaderVx == Init /\ [][VxNext /\ UNCHANGED <<decVars, resVars, adVars, itpVars, appVars, srvVars, qryVars>>]_vars

\* The same, with archives that may have lost the end of their last payload.
SpecLoaderDamaged ==
    Init /\ [][(VxNext \/ TruncateDataArchive) /\ UNCHANGED <<decVars, resVars, adVars, itpVars, appVars, srvVars, qryVars>>]_vars

\* Single calls of VXDataAdapter.adapt.
SpecAdapter ==
    Init /\ [][AdNext /\ UNCHANGED <<arcVars, decVars, resVars, dlVars, itpVars, appVars, srvVars, qryVars>>]_vars

\* Calls of set_map_context, clear_map_context and interpret_event on one
\* interpreter.
SpecInterpreter ==
    Init /\ [][ItpNext /\ UNCHANGED <<arcVars, decVars, resVars, dlVars, adVars, appVars, srvVars, qryVars>>]_vars

SpecAppState ==
    Init /\ [][AppNext /\ UNCHANGED <<arcVars, decVars, resVars, dlVars, adVars, itpVars, srvVars, qryVars>>]_vars

SpecRegistry ==
    Init /\ [][RegNext /\ UNCHANGED <<arcVars, decVars, resVars, dlVars, adVars, itpVars, srvVars, qryVars>>]_vars

SpecUpsert ==
    Init /\ [][RegUpsert /\ UNCHANGED <<arcVars, decVars, resVars, dlVars, adVars, itpVars, srvVars, qryVars>>]_vars

SpecServer ==
    Init /\ [][SrvNext /\ UNCHANGED <<arcVars, decVars, resVars, dlVars, adVars, appVars, qryVars>>]_vars

SpecQueries ==
    Init /\ [][QryNext /\ UNCHANGED <<arcVars, decVars, resVars, dlVars, adVars, itpVars, appVars, srvVars>>]_vars

\* An MV loader over a data directory that stays as it is during the session.
SpecLoaderSession ==
    Init /\ [][SessionNext /\ UNCHANGED <<decVars, resVars, adVars, itpVars, appVars, srvVars, qryVars>>]_vars

\* Callers of load_json of one MV loader side by side.
SpecLoaderRace ==
    Init /\ [][RaceNext /\ UNCHANGED <<decVars, resVars, adVars, itpVars, appVars, qryVars>>]_vars

\* Two map requests whose steps interleave.
SpecConcurrent ==
    Init /\ [][ConcurrentNext /\ UNCHANGED <<arcVars, decVars, resVars, dlVars, adVars, appVars, qryVars>>]_vars

====
